---- MODULE Spec2Model ----
(***************************************************************************)
(* A model of the sanechek bot's database rows (tasks, reminders) and of   *)
(* the handlers, scheduler jobs and web API calls that change them.        *)
(*                                                                         *)
(* Execution model (src/main.py:63-68, src/services/scheduler.py:29-58,    *)
(* src/webapp/api.py): the Application is built without concurrent_updates,*)
(* so the update handlers run one at a time ("bot"); a job-queue callback  *)
(* ("sched") and a web API request ("api") each run beside it and the      *)
(* three interleave at their await points.  Every handler works on the     *)
(* rows it loaded into its own session and writes the columns it changed   *)
(* when the session commits (src/database/connection.py:32-39).            *)
(*                                                                         *)
(* NULL columns are written 0; the clock starts at 1.                      *)
(***************************************************************************)
EXTENDS Integers, Sequences, FiniteSets, TLC

\* ------------------------------------------------------------- bounds
NUsers == 2
MaxReminders == 2
MaxTasks == 3
MaxTime == 2
MaxCalls == 2
MaxRoots == 1
MaxCloses == 2
NChats == 2
MaxDays == 2
MaxAsked == 12
NHashes == 2
MaxExecuted == 1
NTalkers == 1
MaxWords == 3
MaxExpenses == 1
NReminderHashes == 1
MaxDialogReminders == 1
\* Words of a generated text of the rules engine.
MaxRuleWords == 3
\* Days of the clock of the deadline parser and the times of day it tells apart.
ClockDays == 14
SlotsPerDay == 6
\* Deadline warnings counted for one task.
MaxWarnings == 2
\* Group texts of one chat that the task detector sees.
MaxMessages == 41

Users == 1..NUsers
\* The users who write to the bot in the dialogue specifications; user_data and the
\* conversation states are kept for them.
Talkers == 1..NTalkers
\* The chats the bot is in; their members and admins are the same.
Chats == 1..NChats
Times == 1..MaxTime
\* The calendar days date.today() takes.
Days == 1..MaxDays
NULL == 0

Texts == 1..2
Recurrences == {"none", "daily"}

VARIABLES
    now,          \* datetime.utcnow(), in ticks
    chat_admins,  \* users with a ChatMember row of the chat that has is_admin set
    reminders,    \* table reminders: reminders[i] is the row with id i
    delivered,    \* delivered[i]: reminder messages of reminder i the platform accepted
    stamped,      \* stamped[i]: commits that wrote status=sent on reminder i
    calls,        \* calls[i]: direct invocations of the delivery operation on reminder i
    sched,        \* the running job-queue callback
    bot,          \* the running update handler
    reply,        \* the last answer a handler gave
    tasks,        \* table tasks: tasks[i] is the row with id i
    nClose,       \* nClose[i]: commits of a close request that stamped task i closed
    nSucc,        \* nSucc[i]: successors inserted by closes of task i
    api,          \* the running web API request
    ask_usage,    \* table ask_usage: the rows in the order of their insertion
    asked,        \* asked[u][d]: questions user u has put on day d
    llm_calls,    \* llm_calls[u][d]: calls of the LLM for questions of u on day d
    pending,      \* context.bot_data: the intents waiting for their yes or no
    executed,     \* the intents handed to the executors, in order
    left_members, \* users whose ChatMember row of the chat has left_at set
    member_rows,  \* member_rows[u]: ChatMember rows the chat has for user u
    user_data,    \* context.user_data: user_data[u] is the flags kept for talker u
    conversations,\* conversations[u]: the state of each ConversationHandler for u
    pending_reminders, \* context.bot_data: the reminders stashed without a time
    handled,      \* the group-0 handler that took the last update, and the update
    expenses,     \* the number of rows of table expenses
    warned,       \* warned[i]: deadline warnings of task i the platform accepted
    task_detector \* context.bot_data: task_detector[c] is the message counter of chat c

remVars == <<reminders, delivered, stamped, calls, sched>>
taskVars == <<tasks, nClose, nSucc, api>>
askVars == <<ask_usage, asked, llm_calls>>
intentVars == <<pending, executed>>
memberVars == <<left_members, member_rows>>
dialogVars == <<user_data, conversations, pending_reminders, handled, expenses>>
sideVars == <<warned, task_detector>>
convVars == <<askVars, intentVars, memberVars, dialogVars, sideVars>>
vars == <<now, chat_admins, reminders, delivered, stamped, calls, sched, bot, reply,
          tasks, nClose, nSucc, api, ask_usage, asked, llm_calls, pending, executed,
          left_members, member_rows, user_data, conversations, pending_reminders,
          handled, expenses, warned, task_detector>>

\* ------------------------------------------------------------- rows
\* Reminder(...): status defaults to pending, the stamps to NULL.
NewReminder(author, recipient, at) ==
    [author_id |-> author, recipient_id |-> recipient, remind_at |-> at,
     status |-> "pending", sent_at |-> NULL,
     cancelled_at |-> NULL, cancelled_by |-> NULL]

ReminderIds == 1..Len(reminders)

\* ------------------------------------------------------------- permissions
\* settings.initial_admins is empty by default and is_global_admin is only ever
\* set from it, so the chat-specific branch decides.
is_admin(u) == u \in chat_admins /\ u \notin left_members

can_cancel_reminder(u, r) ==
    \/ u = r.recipient_id
    \/ u = r.author_id
    \/ is_admin(u)

\* ------------------------------------------------------------- actors
\* last: how the last send_reminder of the running job ended.
SchedIdle == [pc |-> "idle", queue |-> <<>>, rid |-> 0, last |-> "none"]
\* seen: the row as the handler loaded it; succ: the row it has added to its session
\* (a close) or the loaded row as it has changed it (an edit); ids: the rows it
\* has changed.
BotIdle == [op |-> "idle", user |-> 0, id |-> 0, at |-> 0, seen |-> "none",
            succ |-> <<>>, ids |-> {}]
ApiIdle == [op |-> "idle", user |-> 0, id |-> 0, at |-> 0, seen |-> "none"]

\* context.user_data of a user nothing has been stored for: the keys the handlers
\* test, absent (FALSE, and 0 for the hash a reminder waits under).
NoUserData == [in_conversation |-> FALSE, reminder_waiting_time |-> 0,
               waiting_assignee_for |-> FALSE, waiting_deadline_for |-> FALSE]
\* One state per ConversationHandler of a (chat, user) key; END is no state.
NoConversation == [task |-> "END", edit |-> "END", cost |-> "END"]
\* No update has been dispatched yet.
NoMessage == [command |-> "none", text |-> <<>>, private |-> FALSE, at |-> 0]
\* bot_data without the counter key of a chat: counter is what get(key, 0) reads;
\* messages counts the group texts of the chat the detector was called for and
\* long those of them of MIN_MESSAGE_LENGTH characters or more.
NoMessages == [counter |-> 0, messages |-> 0, long |-> 0]
\* No update has been dispatched yet.
NoUpdate == [by |-> "none", user |-> 0, msg |-> NoMessage]

\* The state after construction, by the clock reading and the update it starts
\* from.
InitAt(clock, update) ==
    /\ now = clock
    /\ chat_admins = {1}
    /\ reminders = <<>>
    /\ delivered = <<>>
    /\ stamped = <<>>
    /\ calls = <<>>
    /\ sched = SchedIdle
    /\ bot = BotIdle
    /\ reply = "none"
    /\ tasks = <<>>
    /\ nClose = <<>>
    /\ nSucc = <<>>
    /\ api = ApiIdle
    /\ ask_usage = <<>>
    /\ asked = [u \in Users |-> [d \in Days |-> 0]]
    /\ llm_calls = [u \in Users |-> [d \in Days |-> 0]]
    /\ pending = {}
    /\ executed = <<>>
    /\ left_members = {}
    /\ member_rows = [u \in Users |-> IF u = 1 THEN 1 ELSE 0]
    /\ user_data = [u \in Talkers |-> NoUserData]
    /\ conversations = [u \in Talkers |-> NoConversation]
    /\ pending_reminders = {}
    /\ handled = update
    /\ expenses = 0
    /\ warned = [i \in 1..MaxTasks |-> 0]
    /\ task_detector = [c \in Chats |-> NoMessages]

Init == InitAt(1, NoUpdate)

\* The clock advances between any two steps.
Tick ==
    /\ now < MaxTime
    /\ now' = now + 1
    /\ UNCHANGED <<convVars, chat_admins, remVars, bot, reply, taskVars>>

\* ------------------------------------------------------------- reminders: creation
\* remind_handler / _handle_time_selection / reminder_time_input_handler: one new
\* pending row; the parsed time may lie before or after now.
create_reminder(author, recipient, at) ==
    /\ bot.op = "idle"
    /\ Len(reminders) < MaxReminders
    /\ reminders' = Append(reminders, NewReminder(author, recipient, at))
    /\ delivered' = Append(delivered, 0)
    /\ stamped' = Append(stamped, 0)
    /\ calls' = Append(calls, 0)
    /\ reply' = "reminder_created"
    /\ UNCHANGED <<convVars, taskVars, now, chat_admins, sched, bot>>

\* ------------------------------------------------------------- reminders: cancel
\* _cancel_reminder up to its last await: load the row, refuse unless pending and
\* permitted, else set the three columns on the loaded object (the time is taken
\* here) and await the message edit.
\* Mutant: _cancel_reminder without its status check.
Cancellable_Any(r) == TRUE

\* _cancel_reminder answers "not active" unless the loaded row is pending.
Cancellable(r) == r.status = "pending"

cancel_reminder_check(u, r) ==
    /\ bot.op = "idle"
    /\ r \in ReminderIds
    /\ IF ~Cancellable(reminders[r])
         THEN /\ reply' = "reminder_not_active"
              /\ bot' = bot
         ELSE IF ~can_cancel_reminder(u, reminders[r])
         THEN /\ reply' = "cancel_no_permission"
              /\ bot' = bot
         ELSE /\ reply' = reply
              /\ bot' = [BotIdle EXCEPT !.op = "cancel", !.user = u, !.id = r,
                                        !.at = now, !.seen = reminders[r].status]
    /\ UNCHANGED <<convVars, taskVars, now, chat_admins, reminders, delivered, stamped, calls, sched>>

\* The session of _cancel_reminder commits: the changed columns are written.
cancel_reminder_commit ==
    /\ bot.op = "cancel"
    /\ reminders' = [reminders EXCEPT ![bot.id] =
                        [@ EXCEPT !.status = "cancelled",
                                  !.cancelled_at = bot.at,
                                  !.cancelled_by = bot.user]]
    /\ reply' = "reminder_cancelled"
    /\ bot' = BotIdle
    /\ UNCHANGED <<convVars, taskVars, now, chat_admins, delivered, stamped, calls, sched>>

\* ------------------------------------------------------------- reminders: edit
\* edit_handler on a reminder, _process_reminder_edit: only a pending reminder is
\* found, the caller must pass can_cancel_reminder, and remind_at is the one
\* column of the row that this model carries and the commit writes.  Here the
\* edit is taken with its commit; edit_reminder_request and edit_reminder_commit
\* take it with the await between the two.
edit_reminder(u, r, at) ==
    /\ bot.op = "idle"
    /\ r \in ReminderIds
    /\ reminders[r].status = "pending"
    /\ IF can_cancel_reminder(u, reminders[r])
         THEN /\ reminders' = [reminders EXCEPT ![r].remind_at = at]
              /\ reply' = "reminder_edited"
         ELSE /\ reminders' = reminders
              /\ reply' = "edit_no_permission"
    /\ UNCHANGED <<convVars, taskVars, now, chat_admins, delivered, stamped, calls, sched, bot>>

\* The same edit up to the await of its answer: the row is loaded (pending), the
\* permission checked, the new time (parse_deadline refuses one that is not after
\* now) set on the loaded row, and the answer sent.
edit_reminder_request(u, r, at) ==
    /\ bot.op = "idle"
    /\ r \in ReminderIds
    /\ at > now
    /\ reminders[r].status = "pending"
    /\ IF can_cancel_reminder(u, reminders[r])
         THEN /\ bot' = [BotIdle EXCEPT !.op = "edit_reminder", !.user = u,
                                        !.id = r, !.at = at]
              /\ reply' = "reminder_edited"
         ELSE /\ bot' = bot
              /\ reply' = "edit_no_permission"
    /\ UNCHANGED <<convVars, taskVars, now, chat_admins, remVars>>

\* The session of edit_handler commits: the changed column is written.
edit_reminder_commit ==
    /\ bot.op = "edit_reminder"
    /\ reminders' = [reminders EXCEPT ![bot.id].remind_at = bot.at]
    /\ bot' = BotIdle
    /\ UNCHANGED <<convVars, taskVars, now, chat_admins, delivered, stamped, calls,
                   sched, reply>>

\* _handle_reminder_edit_from_reply: the reminder comes from get_reply_context,
\* whose session is closed; the new time is set on that detached object and the
\* commit of the new session writes nothing.
edit_reminder_from_reply(u, r, at) ==
    /\ bot.op = "idle"
    /\ r \in ReminderIds
    /\ at > now
    /\ reply' = "reminder_edited"
    /\ UNCHANGED <<convVars, taskVars, now, chat_admins, remVars, bot>>

\* ------------------------------------------------------------- reminders: delivery
RECURSIVE IdsFrom(_, _)
\* The ids in i..Len(reminders) that satisfy the sweep's WHERE clause, ascending.
IdsFrom(i, t) ==
    IF i > Len(reminders) THEN <<>>
    ELSE IF reminders[i].status = "pending" /\ reminders[i].remind_at <= t
         THEN <<i>> \o IdsFrom(i + 1, t)
         ELSE IdsFrom(i + 1, t)

\* select(Reminder).where(status == PENDING, remind_at <= now)
DueReminders == IdsFrom(1, now)

\* check_reminders_job: the query; the loop over its result follows.
check_reminders_job ==
    /\ sched.pc = "idle"
    /\ sched' = [sched EXCEPT !.pc = "loop", !.queue = DueReminders]
    /\ UNCHANGED <<convVars, taskVars, now, chat_admins, reminders, delivered, stamped, bot, reply, calls>>

RECURSIVE CallsFrom(_)
\* The direct invocations so far, on the reminders from id i on.
CallsFrom(i) == IF i > Len(calls) THEN 0 ELSE calls[i] + CallsFrom(i + 1)

\* send_reminder called directly on a reminder id, MaxCalls times in all.
deliver_call(r) ==
    /\ sched.pc = "idle"
    /\ r \in ReminderIds
    /\ CallsFrom(1) < MaxCalls
    /\ calls' = [calls EXCEPT ![r] = @ + 1]
    /\ sched' = [sched EXCEPT !.pc = "loop", !.queue = <<r>>]
    /\ UNCHANGED <<convVars, taskVars, now, chat_admins, reminders, delivered, stamped, bot, reply>>

\* Mutant: send_reminder without the status check after its refresh.
StillPending_Unchecked(r) == TRUE

\* send_reminder, the refresh: a reminder that is no longer pending is skipped.
StillPending(r) == reminders[r].status = "pending"

send_reminder_refresh ==
    /\ sched.pc = "loop"
    /\ sched.queue # <<>>
    /\ LET r == Head(sched.queue) IN
        IF StillPending(r)
          THEN sched' = [sched EXCEPT !.pc = "dm", !.queue = Tail(@), !.rid = r]
          ELSE sched' = [sched EXCEPT !.queue = Tail(@), !.last = "skipped"]
    /\ UNCHANGED <<convVars, taskVars, now, chat_admins, reminders, delivered, stamped, calls, bot, reply>>

\* send_reminder, the private message: it is accepted or it raises.
send_reminder_dm(ok) ==
    /\ sched.pc = "dm"
    /\ IF ok
         THEN /\ delivered' = [delivered EXCEPT ![sched.rid] = @ + 1]
              /\ sched' = [sched EXCEPT !.pc = "stamp"]
         ELSE /\ delivered' = delivered
              /\ sched' = [sched EXCEPT !.pc = "group"]
    /\ UNCHANGED <<convVars, taskVars, now, chat_admins, reminders, stamped, calls, bot, reply>>

\* Mutant: send_reminder without the return after the second failure.
AfterBothFailed_FallThrough(s) == [s EXCEPT !.pc = "stamp"]

\* send_reminder when the group message raised too: it returns, nothing is set.
AfterBothFailed(s) == [s EXCEPT !.pc = "loop", !.rid = 0, !.last = "failed"]

\* send_reminder, the group message after a failed private one.
send_reminder_group(ok) ==
    /\ sched.pc = "group"
    /\ IF ok
         THEN /\ delivered' = [delivered EXCEPT ![sched.rid] = @ + 1]
              /\ sched' = [sched EXCEPT !.pc = "stamp"]
         ELSE /\ delivered' = delivered
              /\ sched' = AfterBothFailed(sched)
    /\ UNCHANGED <<convVars, taskVars, now, chat_admins, reminders, stamped, calls, bot, reply>>

\* send_reminder, the stamp and the commit of its session.
send_reminder_stamp ==
    /\ sched.pc = "stamp"
    /\ reminders' = [reminders EXCEPT ![sched.rid] =
                        [@ EXCEPT !.status = "sent", !.sent_at = now]]
    /\ stamped' = [stamped EXCEPT ![sched.rid] = @ + 1]
    /\ sched' = [sched EXCEPT !.pc = "loop", !.rid = 0, !.last = "delivered"]
    /\ UNCHANGED <<convVars, taskVars, now, chat_admins, delivered, calls, bot, reply>>

\* The loop of check_reminders_job has run out.
job_end ==
    /\ sched.pc = "loop"
    /\ sched.queue = <<>>
    /\ sched' = SchedIdle
    /\ UNCHANGED <<convVars, taskVars, now, chat_admins, reminders, delivered, stamped, bot, reply, calls>>

ReminderUserStep ==
    \/ \E a \in Users, rcp \in Users, at \in Times : create_reminder(a, rcp, at)
    \/ \E u \in Users, r \in 1..MaxReminders : cancel_reminder_check(u, r)
    \/ cancel_reminder_commit
    \/ \E u \in Users, r \in 1..MaxReminders, at \in Times : edit_reminder(u, r, at)

DeliveryStep ==
    \/ send_reminder_refresh
    \/ \E ok \in BOOLEAN : send_reminder_dm(ok)
    \/ \E ok \in BOOLEAN : send_reminder_group(ok)
    \/ send_reminder_stamp
    \/ job_end

\* Reminders under the scheduler's sweeps and the users' actions.
NextReminders ==
    \/ Tick
    \/ ReminderUserStep
    \/ check_reminders_job
    \/ DeliveryStep

SpecReminders == Init /\ [][NextReminders]_vars

\* Reminders under the sweeps, with the edits taken at their awaits.
NextReminderEdit ==
    \/ Tick
    \/ \E a \in Users, rcp \in Users, at \in Times : create_reminder(a, rcp, at)
    \/ \E u \in Users, r \in 1..MaxReminders : cancel_reminder_check(u, r)
    \/ cancel_reminder_commit
    \/ \E u \in Users, r \in 1..MaxReminders, at \in Times : edit_reminder_request(u, r, at)
    \/ edit_reminder_commit
    \/ \E u \in Users, r \in 1..MaxReminders, at \in Times : edit_reminder_from_reply(u, r, at)
    \/ check_reminders_job
    \/ DeliveryStep

SpecReminderEdit == Init /\ [][NextReminderEdit]_vars

\* The same, with the delivery operation also invoked directly on any reminder.
NextDelivery ==
    \/ NextReminders
    \/ \E r \in 1..MaxReminders : deliver_call(r)

SpecDelivery == Init /\ [][NextDelivery]_vars

\* The delivery operation alone: reminders are created and delivery is invoked on
\* them, one invocation after the other, with nothing else in between.
NextTwice ==
    \/ Tick
    \/ \E a \in Users, rcp \in Users, at \in Times : create_reminder(a, rcp, at)
    \/ \E r \in 1..MaxReminders : deliver_call(r)
    \/ DeliveryStep

SpecTwice == Init /\ [][NextTwice]_vars

\* ------------------------------------------------------------- tasks: rows
\* Task.recurrence_active: a new row has it set; only a delete clears it.
RecurrenceActiveDefault == TRUE

\* Task(...): status defaults to open, the close stamps to NULL.
NewTask(chat, author, assignee, text, deadline, recurrence, parent) ==
    [chat_id |-> chat, author_id |-> author, assignee_id |-> assignee, text |-> text,
     deadline |-> deadline, status |-> "open", reminder_sent |-> FALSE,
     closed_at |-> NULL, closed_by |-> NULL,
     recurrence |-> recurrence, parent_task_id |-> parent,
     recurrence_active |-> RecurrenceActiveDefault]

TaskIds == 1..Len(tasks)

\* Mutant: can_close_task that lets everybody close.
can_close_task_Anyone(u, task) == TRUE

can_close_task(u, task) ==
    \/ u = task.assignee_id
    \/ u = task.author_id
    \/ is_admin(u)

\* Mutant: can_edit_task that lets the assignee edit too.
can_edit_task_AssigneeToo(u, task) ==
    u = task.author_id \/ u = task.assignee_id \/ is_admin(u)

can_edit_task(u, task) ==
    \/ u = task.author_id
    \/ is_admin(u)

\* The UPDATE a commit issues for one loaded row: the columns whose value in the
\* session (new) differs from the loaded one (seen); the others keep what the
\* table holds.
Flush(row, seen, new) ==
    [c \in DOMAIN row |-> IF new[c] # seen[c] THEN new[c] ELSE row[c]]

Zeros(n) == [i \in 1..n |-> 0]

\* ------------------------------------------------------------- tasks: creation
Roots == {i \in TaskIds : tasks[i].parent_task_id = NULL}

\* _create_task at the end of the /task dialogue: one open row without a parent.
create_task(chat, author, assignee, deadline, recurrence) ==
    /\ bot.op = "idle"
    /\ Len(tasks) < MaxTasks
    /\ Cardinality(Roots) < MaxRoots
    /\ tasks' = Append(tasks, NewTask(chat, author, assignee, 1, deadline, recurrence, NULL))
    /\ nClose' = Append(nClose, 0)
    /\ nSucc' = Append(nSucc, 0)
    /\ reply' = "task_created"
    /\ UNCHANGED <<convVars, remVars, now, chat_admins, bot, api>>

\* ------------------------------------------------------------- tasks: recurrence
\* Mutant: a successor that points at the task it follows.
SeriesRoot_Previous(task, id) == id

\* task.parent_task_id or task.id
SeriesRoot(task, id) ==
    IF task.parent_task_id # NULL THEN task.parent_task_id ELSE id

\* timedelta(days=1) in ticks of the clock.
Day == 2

\* Mutant: a successor due at the deadline of the task it follows.
next_deadline_Same(task) ==
    IF task.recurrence = "daily" THEN task.deadline ELSE NULL

\* The deadline of the next instance.
next_deadline(task) ==
    IF task.recurrence = "daily" THEN task.deadline + Day ELSE NULL

\* _create_next_recurring_task: the rows it adds to the session, none or one.
create_next_recurring_task(task, id) ==
    IF task.recurrence = "none" THEN <<>>
    ELSE IF ~task.recurrence_active THEN <<>>
    ELSE IF task.deadline = NULL THEN <<>>
    ELSE IF next_deadline(task) = NULL THEN <<>>
    ELSE <<NewTask(task.chat_id, task.author_id, task.assignee_id, task.text,
                   next_deadline(task),
                   task.recurrence, SeriesRoot(task, id))>>

\* ------------------------------------------------------------- tasks: close
\* The session object after task.status, closed_at and closed_by are set.
Closed(task, u, at) ==
    [task EXCEPT !.status = "closed", !.closed_at = at, !.closed_by = u]

\* done_handler and _close_task_callback from the re-read of the task on: already
\* closed and not permitted are answered, else the stamps are set and the
\* successor is added; the reply is awaited before the session commits.
close_request(u, t) ==
    /\ bot.op = "idle"
    /\ t \in TaskIds
    /\ IF tasks[t].status = "closed"
         THEN /\ reply' = "task_already_closed"
              /\ bot' = bot
         ELSE IF ~can_close_task(u, tasks[t])
         THEN /\ reply' = "cant_close"
              /\ bot' = bot
         ELSE /\ Len(tasks) + Len(create_next_recurring_task(tasks[t], t)) <= MaxTasks
              /\ reply' = reply
              /\ bot' = [BotIdle EXCEPT !.op = "close", !.user = u, !.id = t, !.at = now,
                             !.seen = tasks[t], !.ids = {t},
                             !.succ = create_next_recurring_task(tasks[t], t)]
    /\ UNCHANGED <<convVars, remVars, now, chat_admins, tasks, nClose, nSucc, api>>

\* /done in reply to a task message, or without a reply when the caller has one
\* open task: either way one task id.
done_handler(u, t) == close_request(u, t)

\* The close button and the confirmed close.
close_task_callback(u, t) == close_request(u, t)

\* _mytasks_close_task: only the assignee closes from the my-tasks list.
mytasks_close_task(u, t) ==
    /\ bot.op = "idle"
    /\ t \in TaskIds
    /\ IF tasks[t].status = "closed"
         THEN /\ reply' = "task_already_closed"
              /\ bot' = bot
         ELSE IF tasks[t].assignee_id # u
         THEN /\ reply' = "not_your_task"
              /\ bot' = bot
         ELSE /\ Len(tasks) + Len(create_next_recurring_task(tasks[t], t)) <= MaxTasks
              /\ reply' = reply
              /\ bot' = [BotIdle EXCEPT !.op = "close", !.user = u, !.id = t,
                             !.at = now, !.seen = tasks[t], !.ids = {t},
                             !.succ = create_next_recurring_task(tasks[t], t)]
    /\ UNCHANGED <<convVars, remVars, now, chat_admins, tasks, nClose, nSucc, api>>

\* The session of a close handler commits: the stamps of the closed row and the
\* successor row are written.
close_commit ==
    /\ bot.op = "close"
    /\ tasks' = [tasks EXCEPT ![bot.id] =
                    Flush(@, bot.seen, Closed(bot.seen, bot.user, bot.at))]
                \o bot.succ
    /\ nClose' = [nClose EXCEPT ![bot.id] = @ + 1] \o Zeros(Len(bot.succ))
    /\ nSucc' = [nSucc EXCEPT ![bot.id] = @ + Len(bot.succ)] \o Zeros(Len(bot.succ))
    /\ reply' = "task_closed"
    /\ bot' = BotIdle
    /\ UNCHANGED <<convVars, remVars, now, chat_admins, api>>

\* _handle_task_close_from_reply: the task is the object get_reply_context loaded
\* in a session that is closed by now, so the stamps set on it reach no commit.
\* Only the author and the assignee pass; a confident intent is answered "closed",
\* a less confident one with the confirm button (close_task_callback).
close_from_reply(u, t, confident) ==
    /\ bot.op = "idle"
    /\ t \in TaskIds
    /\ reply' = IF u \notin {tasks[t].author_id, tasks[t].assignee_id}
                  THEN "only_author_or_assignee"
                ELSE IF ~confident THEN "close_confirm_asked"
                ELSE IF tasks[t].status = "closed" THEN "task_already_closed"
                ELSE "task_closed"
    /\ UNCHANGED <<convVars, remVars, taskVars, now, chat_admins, bot>>

\* ------------------------------------------------------------- tasks: delete
\* Mutant: a delete that leaves recurrence_active as it was.
Deleted_KeepsRecurrence(task, u, at) ==
    [task EXCEPT !.status = "closed", !.closed_at = at, !.closed_by = u]

\* The session object after _delete_single_task has set its four columns.
Deleted(task, u, at) ==
    [task EXCEPT !.status = "closed", !.closed_at = at, !.closed_by = u,
                 !.recurrence_active = FALSE]

\* _delete_single_task up to its await: the permission check is the only one.
delete_single_task(u, t) ==
    /\ bot.op = "idle"
    /\ t \in TaskIds
    /\ IF ~can_edit_task(u, tasks[t])
         THEN /\ reply' = "cant_edit"
              /\ bot' = bot
         ELSE /\ reply' = reply
              /\ bot' = [BotIdle EXCEPT !.op = "delete_one", !.user = u, !.id = t,
                             !.at = now, !.seen = tasks[t], !.ids = {t}]
    /\ UNCHANGED <<convVars, remVars, taskVars, now, chat_admins>>

\* Mutant: a series query that leaves out the root row.
SeriesOpen_ChildrenOnly(t) ==
    {i \in TaskIds :
        /\ tasks[i].parent_task_id = SeriesRoot(tasks[t], t)
        /\ tasks[i].status = "open"}

\* root_id = task.parent_task_id or task.id; the open rows with that id or parent.
SeriesOpen(t) ==
    {i \in TaskIds :
        /\ i = SeriesRoot(tasks[t], t) \/ tasks[i].parent_task_id = SeriesRoot(tasks[t], t)
        /\ tasks[i].status = "open"}

\* _delete_task_series up to its await.
delete_task_series(u, t) ==
    /\ bot.op = "idle"
    /\ t \in TaskIds
    /\ IF ~can_edit_task(u, tasks[t])
         THEN /\ reply' = "cant_edit"
              /\ bot' = bot
         ELSE /\ reply' = reply
              /\ bot' = [BotIdle EXCEPT !.op = "delete_series", !.user = u, !.id = t,
                             !.at = now, !.seen = tasks[t], !.ids = SeriesOpen(t)]
    /\ UNCHANGED <<convVars, remVars, taskVars, now, chat_admins>>

\* The session of a delete commits.  Every row of a series was loaded open, so all
\* four columns of it are written; the single task is written column by column.
delete_commit ==
    /\ bot.op \in {"delete_one", "delete_series"}
    /\ tasks' = [i \in TaskIds |->
                    IF i \notin bot.ids THEN tasks[i]
                    ELSE IF bot.op = "delete_one"
                      THEN Flush(tasks[i], bot.seen, Deleted(bot.seen, bot.user, bot.at))
                      ELSE Deleted(tasks[i], bot.user, bot.at)]
    /\ reply' = IF bot.op = "delete_one" THEN "task_deleted" ELSE "series_deleted"
    /\ bot' = BotIdle
    /\ UNCHANGED <<convVars, remVars, now, chat_admins, nClose, nSucc, api>>

\* ------------------------------------------------------------- tasks: web API
\* close_task_api up to its commit: 403 unless the caller is assignee or author;
\* the status of the loaded row is not looked at and no successor is made.
close_task_api(u, t) ==
    /\ api.op = "idle"
    /\ t \in TaskIds
    /\ nClose[t] < MaxCloses
    /\ IF tasks[t].assignee_id # u /\ tasks[t].author_id # u
         THEN api' = api
         ELSE api' = [op |-> "close", user |-> u, id |-> t, at |-> now,
                      seen |-> tasks[t]]
    /\ UNCHANGED <<convVars, remVars, now, chat_admins, bot, reply, tasks, nClose, nSucc>>

\* session.commit() of close_task_api.
close_task_api_commit ==
    /\ api.op = "close"
    /\ tasks' = [tasks EXCEPT ![api.id] =
                    Flush(@, api.seen, Closed(api.seen, api.user, api.at))]
    /\ nClose' = [nClose EXCEPT ![api.id] = @ + 1]
    /\ api' = ApiIdle
    /\ UNCHANGED <<convVars, remVars, now, chat_admins, bot, reply, nSucc>>

\* ------------------------------------------------------------- tasks: deadline warning
\* settings.task_reminder_hours_before in ticks of the clock: less than a day.
task_reminder_hours_before == 1

\* Mutant: the sweep's query without the reminder_sent condition.
DeadlineDue_AnyFlag ==
    {i \in TaskIds :
        /\ tasks[i].status = "open"
        /\ tasks[i].deadline # NULL
        /\ tasks[i].deadline <= now + task_reminder_hours_before
        /\ tasks[i].deadline > now}

\* The open tasks not warned about whose deadline is ahead and within the window.
DeadlineDue ==
    {i \in TaskIds :
        /\ tasks[i].status = "open"
        /\ ~tasks[i].reminder_sent
        /\ tasks[i].deadline # NULL
        /\ tasks[i].deadline <= now + task_reminder_hours_before
        /\ tasks[i].deadline > now}

\* check_task_deadlines_job: each due task whose message the assignee's private
\* chat accepted gets reminder_sent; the commit writes that column only.
check_task_deadlines_job ==
    /\ DeadlineDue # {}
    /\ \E accepted \in SUBSET {i \in DeadlineDue : warned[i] < MaxWarnings} :
          /\ tasks' = [i \in TaskIds |->
                          IF i \in accepted THEN [tasks[i] EXCEPT !.reminder_sent = TRUE]
                          ELSE tasks[i]]
          /\ warned' = [i \in DOMAIN warned |->
                           IF i \in accepted THEN warned[i] + 1 ELSE warned[i]]
    /\ UNCHANGED <<askVars, intentVars, memberVars, dialogVars, task_detector, remVars,
                   now, chat_admins, bot, reply, nClose, nSucc, api>>

\* ------------------------------------------------------------- tasks: edit
\* The session object after _process_inline_edit has set one of the three fields.
Edited(task, field, val) ==
    IF field = "text" THEN [task EXCEPT !.text = val]
    ELSE IF field = "deadline" THEN [task EXCEPT !.deadline = val]
    ELSE [task EXCEPT !.assignee_id = val]

EditValues(field) ==
    IF field = "text" THEN Texts
    ELSE IF field = "deadline" THEN Times
    ELSE Users

\* /edit <args> in reply to a task message: edit_handler checks can_edit_task,
\* _process_inline_edit sets the field and awaits its answer.
edit_handler(u, t, field, val) ==
    /\ bot.op = "idle"
    /\ t \in TaskIds
    /\ val \in EditValues(field)
    /\ IF ~can_edit_task(u, tasks[t])
         THEN /\ reply' = "cant_edit"
              /\ bot' = bot
         ELSE /\ reply' = "task_edited"
              /\ bot' = [BotIdle EXCEPT !.op = "edit", !.user = u, !.id = t, !.at = now,
                             !.seen = tasks[t], !.ids = {t},
                             !.succ = <<Edited(tasks[t], field, val)>>]
    /\ UNCHANGED <<convVars, remVars, taskVars, now, chat_admins>>

\* session.commit() of _process_inline_edit: the changed column is written.
edit_commit ==
    /\ bot.op = "edit"
    /\ tasks' = [tasks EXCEPT ![bot.id] = Flush(@, bot.seen, bot.succ[1])]
    /\ bot' = BotIdle
    /\ UNCHANGED <<convVars, remVars, now, chat_admins, reply, nClose, nSucc, api>>

\* _handle_task_edit_from_reply: no permission check, and _process_inline_edit is
\* given the object of the closed session of get_reply_context and a new, empty
\* session: the field is set on that object, the commit writes nothing.
edit_from_reply(u, t, field, val) ==
    /\ bot.op = "idle"
    /\ t \in TaskIds
    /\ val \in EditValues(field)
    /\ reply' = "task_edited"
    /\ UNCHANGED <<convVars, remVars, taskVars, now, chat_admins, bot>>

\* The "edit field" button of task_callback_handler stores the field in user_data
\* and asks for the value; the handler that would read it (receive_edit_value) is a
\* state of a conversation whose entry point always ends it, so no update reaches it.
edit_field_callback(u, t, field) ==
    /\ bot.op = "idle"
    /\ t \in TaskIds
    /\ reply' = "edit_value_asked"
    /\ UNCHANGED <<convVars, remVars, taskVars, now, chat_admins, bot>>

EditFields == {"text", "deadline", "assignee"}

\* ------------------------------------------------------------- tasks: next-state
CloseStep ==
    \/ \E u \in Users, t \in 1..MaxTasks : done_handler(u, t)
    \/ \E u \in Users, t \in 1..MaxTasks : close_task_callback(u, t)
    \/ \E u \in Users, t \in 1..MaxTasks : mytasks_close_task(u, t)
    \/ \E u \in Users, t \in 1..MaxTasks, c \in BOOLEAN : close_from_reply(u, t, c)
    \/ close_commit

DeleteStep ==
    \/ \E u \in Users, t \in 1..MaxTasks : delete_single_task(u, t)
    \/ \E u \in Users, t \in 1..MaxTasks : delete_task_series(u, t)
    \/ delete_commit

ApiStep ==
    \/ \E u \in Users, t \in 1..MaxTasks : close_task_api(u, t)
    \/ close_task_api_commit

EditStep ==
    \/ \E u \in Users, t \in 1..MaxTasks, f \in EditFields, v \in Users \cup Texts \cup Times :
          edit_handler(u, t, f, v)
    \/ \E u \in Users, t \in 1..MaxTasks, f \in EditFields, v \in Users \cup Texts \cup Times :
          edit_from_reply(u, t, f, v)
    \/ edit_commit
    \/ \E u \in Users, t \in 1..MaxTasks, f \in EditFields : edit_field_callback(u, t, f)

\* The /task dialogue held in the first chat.
CreateTaskStep ==
    \E a \in Users, s \in Users, r \in Recurrences : create_task(1, a, s, MaxTime, r)

\* The /task dialogue held in any chat.
CreateTaskAnyChat ==
    \E c \in Chats, a \in Users, s \in Users, r \in Recurrences :
        create_task(c, a, s, MaxTime, r)

\* Tasks under the close, delete and web API requests.
NextTasks ==
    \/ CreateTaskStep
    \/ CloseStep
    \/ DeleteStep
    \/ ApiStep

SpecTasks == Init /\ [][NextTasks]_vars

\* Tasks under the close requests of the bot and the web API, with the clock and
\* the deadline warnings.
NextClose ==
    \/ Tick
    \/ CreateTaskAnyChat
    \/ CloseStep
    \/ ApiStep
    \/ check_task_deadlines_job

SpecClose == Init /\ [][NextClose]_vars

\* Tasks under the edit requests, with the close requests beside them.
NextEdit ==
    \/ CreateTaskStep
    \/ EditStep
    \/ \E u \in Users, t \in 1..MaxTasks : done_handler(u, t)
    \/ close_commit

SpecEdit == Init /\ [][NextEdit]_vars

\* ------------------------------------------------------------- questions
DAILY_LIMIT == 10

\* date.today()
today == (now - 1) \div Day + 1

\* The clock over the days of the model.
TickDays ==
    /\ now < MaxDays * Day
    /\ now' = now + 1
    /\ UNCHANGED <<convVars, chat_admins, remVars, bot, reply, taskVars>>

\* Mutant: a lookup that finds no row.
UsageRows_None(u, d) == {}

\* select(AskUsage).where(user_id == u, usage_date == d)
UsageRows(u, d) ==
    {i \in 1..Len(ask_usage) :
        ask_usage[i].user_id = u /\ ask_usage[i].usage_date = d}

\* Mutant: a limit that lets one question more through.
QuotaExhausted_OneMore(usage) == usage.count > DAILY_LIMIT

\* usage.count >= DAILY_LIMIT
QuotaExhausted(usage) == usage.count >= DAILY_LIMIT

\* Mutant: the quota message without the return after it.
AfterQuotaMessage_FallThrough(u) ==
    [BotIdle EXCEPT !.op = "ask", !.user = u, !.at = today]

\* The handler after the quota message: it returns.
AfterQuotaMessage(u) == BotIdle

\* _process_question up to the end of its session: the row of the user and the
\* day is looked up (scalar_one_or_none raises on more than one); a count at the
\* limit is answered with the quota message; else the row is incremented, or
\* inserted with count 1, and committed before the LLM is asked.
process_question(u) ==
    /\ bot.op = "idle"
    /\ asked[u][today] < MaxAsked
    /\ asked' = [asked EXCEPT ![u][today] = @ + 1]
    /\ LET rows == UsageRows(u, today)
           i == CHOOSE j \in rows : TRUE
       IN IF Cardinality(rows) > 1
            THEN /\ reply' = "error"
                 /\ UNCHANGED <<ask_usage, bot>>
          ELSE IF rows # {} /\ QuotaExhausted(ask_usage[i])
            THEN /\ reply' = "quota_exhausted"
                 /\ bot' = AfterQuotaMessage(u)
                 /\ ask_usage' = ask_usage
          ELSE /\ ask_usage' =
                     IF rows # {}
                       THEN [ask_usage EXCEPT ![i].count = @ + 1]
                       ELSE Append(ask_usage,
                                [user_id |-> u, usage_date |-> today, count |-> 1])
               /\ bot' = [BotIdle EXCEPT !.op = "ask", !.user = u, !.at = today]
               /\ reply' = reply
    /\ UNCHANGED <<llm_calls, intentVars, memberVars, dialogVars, sideVars, now, chat_admins, remVars, taskVars>>

\* /ask with a question.
ask_handler(u) == process_question(u)

\* A reply to a message of the bot that is taken as a question.
reply_to_bot_handler(u) == process_question(u)

\* The rest of _process_question: ask_llm is awaited and its answer, or the
\* apology when it raises, is the reply.
process_question_llm(ok) ==
    /\ bot.op = "ask"
    /\ llm_calls' = [llm_calls EXCEPT ![bot.user][bot.at] = @ + 1]
    /\ reply' = IF ok THEN "answer" ELSE "llm_failed"
    /\ bot' = BotIdle
    /\ UNCHANGED <<ask_usage, asked, intentVars, memberVars, dialogVars, sideVars, now, chat_admins, remVars, taskVars>>

\* Questions of the users over the days.
NextAsk ==
    \/ TickDays
    \/ \E u \in Users : ask_handler(u)
    \/ \E u \in Users : reply_to_bot_handler(u)
    \/ \E ok \in BOOLEAN : process_question_llm(ok)

SpecAsk == Init /\ [][NextAsk]_vars

\* ------------------------------------------------------------- intents
\* Confidences in hundredths: the two thresholds, the value below the lower one,
\* the value the rules engine gives a question and a value above both.
Confidences == {64, 65, 80, 85, 90}

\* CONFIDENCE_THRESHOLDS
auto_execute == 85
ignore == 65

\* extracted_data, by what is_simple_action reads of it: whether an assignee, a
\* deadline, a reminder time is given.
Data(a, dl, tm) == [assignee |-> a, deadline |-> dl, reminder_time |-> tm]

IntentTypes == {"task", "reminder", "question", "none"}

\* The data classify_intent extracts for a type: assignee and deadline of a task,
\* the time of a reminder.
DataOf(ty) ==
    IF ty = "task" THEN {Data(a, dl, FALSE) : a \in BOOLEAN, dl \in BOOLEAN}
    ELSE IF ty = "reminder" THEN {Data(FALSE, FALSE, tm) : tm \in BOOLEAN}
    ELSE {Data(FALSE, FALSE, FALSE)}

IntentResult(ty, c, data) ==
    [intent_type |-> ty, confidence |-> c, extracted_data |-> data]

\* The results classify_intent returns.
Intents ==
    UNION {{IntentResult(ty, c, data) : c \in Confidences, data \in DataOf(ty)} :
              ty \in IntentTypes}

\* _compute_intent_hash(text, chat_id)
Hashes == 1..NHashes

is_simple_action(r) ==
    IF r.intent_type = "question" THEN TRUE
    ELSE IF r.intent_type = "task"
      THEN ~r.extracted_data.assignee /\ ~r.extracted_data.deadline
    ELSE IF r.intent_type = "reminder" THEN r.extracted_data.reminder_time
    ELSE FALSE

\* Mutant: confirmation decided by the confidence alone.
needs_confirmation_ConfidenceOnly(r) == r.confidence < auto_execute

needs_confirmation(r) ==
    IF r.confidence < auto_execute THEN TRUE
    ELSE IF ~is_simple_action(r) THEN TRUE
    ELSE FALSE

should_ignore(r) == r.confidence < ignore

\* _store_pending_intent: bot_data[key] is set, replacing what the key held.
store_pending_intent(h, r, u) ==
    {q \in pending : q.hash # h}
        \cup {[hash |-> h, intent_type |-> r.intent_type,
               extracted_data |-> r.extracted_data, user_id |-> u]}

\* Mutant: _delete_pending_intent leaving bot_data as it is.
delete_pending_intent_Keep(h) == pending

\* _delete_pending_intent
delete_pending_intent(h) == {q \in pending : q.hash # h}

\* intent_router_handler up to the end of classify_intent, for a message that
\* passes the handler's filters and gets a result; text and chat give the hash.
intent_router_classify(u, h, r) ==
    /\ bot.op = "idle"
    /\ bot' = [BotIdle EXCEPT !.op = "route", !.user = u, !.id = h, !.seen = r]
    /\ UNCHANGED <<convVars, remVars, taskVars, now, chat_admins, reply>>

\* intent_router_handler from should_ignore on.
intent_router_handler ==
    /\ bot.op = "route"
    /\ IF should_ignore(bot.seen)
         THEN UNCHANGED <<pending, executed, reply>>
       ELSE IF needs_confirmation(bot.seen)
         THEN /\ pending' = store_pending_intent(bot.id, bot.seen, bot.user)
              /\ reply' = "intent_confirm_asked"
              /\ executed' = executed
       ELSE /\ Len(executed) < MaxExecuted
            /\ executed' = Append(executed,
                   [intent_type |-> bot.seen.intent_type,
                    confidence |-> bot.seen.confidence,
                    extracted_data |-> bot.seen.extracted_data,
                    user_id |-> bot.user, via |-> "execute_intent"])
            /\ reply' = "intent_executed"
            /\ pending' = pending
    /\ bot' = BotIdle
    /\ UNCHANGED <<askVars, memberVars, dialogVars, sideVars, remVars, taskVars, now, chat_admins>>

\* intent_callback_handler up to the end of query.answer(): a button of a
\* confirmation prompt was pressed by user p.
intent_callback_answer(p, action, h) ==
    /\ bot.op = "idle"
    /\ bot' = [BotIdle EXCEPT !.op = "intent_callback", !.user = p, !.id = h,
                   !.seen = action]
    /\ UNCHANGED <<convVars, remVars, taskVars, now, chat_admins, reply>>

\* Mutant: the stored intent handed on without the forced confidence.
Reconstructed_Unforced(q) ==
    [intent_type |-> q.intent_type, confidence |-> ignore,
     extracted_data |-> q.extracted_data, user_id |-> q.user_id,
     via |-> "execute_intent_from_callback"]

\* The IntentResult rebuilt from a stored intent, with the user it is run for.
Reconstructed(q) ==
    [intent_type |-> q.intent_type, confidence |-> 100,
     extracted_data |-> q.extracted_data, user_id |-> q.user_id,
     via |-> "execute_intent_from_callback"]

\* intent_callback_handler after query.answer().
intent_callback_handler ==
    /\ bot.op = "intent_callback"
    /\ LET stored == {q \in pending : q.hash = bot.id}
       IN IF bot.seen = "dismiss"
            THEN /\ pending' = delete_pending_intent(bot.id)
                 /\ reply' = "intent_dismissed"
                 /\ executed' = executed
          ELSE IF stored = {}
            THEN /\ reply' = "intent_expired"
                 /\ UNCHANGED <<pending, executed>>
          ELSE /\ Len(executed) < MaxExecuted
               /\ executed' = Append(executed, Reconstructed(CHOOSE q \in stored : TRUE))
               /\ pending' = delete_pending_intent(bot.id)
               /\ reply' = "intent_executing"
    /\ bot' = BotIdle
    /\ UNCHANGED <<askVars, memberVars, dialogVars, sideVars, remVars, taskVars, now, chat_admins>>

\* Messages through the intent router and the buttons of its prompts.
NextIntent ==
    \/ \E u \in Users, h \in Hashes, r \in Intents : intent_router_classify(u, h, r)
    \/ intent_router_handler
    \/ \E p \in Users, action \in {"confirm", "dismiss"}, h \in Hashes :
          intent_callback_answer(p, action, h)
    \/ intent_callback_handler

SpecIntent == Init /\ [][NextIntent]_vars

\* ------------------------------------------------------------- admins
\* Mutant: a count of admins that takes the members who left along.
get_chat_admins_WithLeft == chat_admins

\* get_chat_admins: the members with is_admin set and left_at NULL (no user has
\* is_global_admin, as none is in settings.initial_admins).
get_chat_admins == {u \in chat_admins : u \notin left_members}

\* /setadmin and /removeadmin arrive from a member of the group, with the
\* user name of a known user.
admin_command(op, caller, target) ==
    /\ bot.op = "idle"
    /\ caller \notin left_members
    /\ bot' = [BotIdle EXCEPT !.op = op, !.user = caller, !.id = target]
    /\ UNCHANGED <<convVars, remVars, taskVars, now, chat_admins, reply>>

\* Mutant: admin commands open to every caller.
CallerIsAdmin_Anyone(u) == TRUE

\* The first check of setadmin_handler and removeadmin_handler.
CallerIsAdmin(u) == is_admin(u)

\* Mutant: a membership lookup that finds nothing.
MembershipFound_Never(u) == FALSE

\* select(ChatMember).where(user_id == u, chat_id == chat) has a row.
MembershipFound(u) == member_rows[u] >= 1

\* session.add(ChatMember(user_id=u, chat_id=chat, ...))
AddMembership(u) == [member_rows EXCEPT ![u] = @ + 1]

\* setadmin_handler: the caller has to be an admin and the target not yet one;
\* the target's membership gets is_admin, or is inserted with it.
setadmin_handler ==
    /\ bot.op = "setadmin"
    /\ IF ~CallerIsAdmin(bot.user)
         THEN reply' = "setadmin_only_admins" /\ UNCHANGED <<chat_admins, member_rows>>
       ELSE IF is_admin(bot.id)
         THEN reply' = "already_admin" /\ UNCHANGED <<chat_admins, member_rows>>
       ELSE /\ reply' = "admin_set"
            /\ chat_admins' = chat_admins \cup {bot.id}
            /\ member_rows' = IF MembershipFound(bot.id) THEN member_rows
                              ELSE AddMembership(bot.id)
    /\ bot' = BotIdle
    /\ UNCHANGED <<askVars, intentVars, dialogVars, sideVars, left_members, remVars, taskVars, now>>

\* removeadmin_handler: the caller has to be an admin and the target one too; a
\* caller who targets themself is refused when get_chat_admins has at most one
\* entry; else the target's membership loses is_admin.
removeadmin_handler ==
    /\ bot.op = "removeadmin"
    /\ IF ~CallerIsAdmin(bot.user)
         THEN reply' = "removeadmin_only_admins" /\ chat_admins' = chat_admins
       ELSE IF ~is_admin(bot.id)
         THEN reply' = "not_an_admin" /\ chat_admins' = chat_admins
       ELSE IF bot.id = bot.user /\ Cardinality(get_chat_admins) <= 1
         THEN reply' = "cant_remove_self" /\ chat_admins' = chat_admins
       ELSE reply' = "admin_removed" /\ chat_admins' = chat_admins \ {bot.id}
    /\ bot' = BotIdle
    /\ UNCHANGED <<convVars, remVars, taskVars, now>>

\* handle_left_chat_member: the membership of a user who left gets left_at; a
\* user without a membership is passed over.
handle_left_chat_member(u) ==
    /\ bot.op = "idle"
    /\ u \notin left_members
    /\ MembershipFound(u)
    /\ left_members' = left_members \cup {u}
    /\ UNCHANGED <<askVars, intentVars, dialogVars, sideVars, member_rows, remVars, taskVars,
                   now, chat_admins, bot, reply>>

\* The membership of a user the bot sees in the chat: the row found has left_at
\* cleared, and a row is inserted when none is found.
ensure_membership(u) ==
    /\ bot.op = "idle"
    /\ IF MembershipFound(u)
         THEN left_members' = left_members \ {u} /\ member_rows' = member_rows
         ELSE left_members' = left_members /\ member_rows' = AddMembership(u)
    /\ UNCHANGED <<askVars, intentVars, dialogVars, sideVars, remVars, taskVars, now, chat_admins, bot, reply>>

\* handle_new_chat_members for a user who joined.
handle_new_chat_members(u) == ensure_membership(u)

\* handle_message for a text message of the user in the group.
handle_message(u) == ensure_membership(u)

\* receive_task_assignee: a user the platform resolved by name gets a membership
\* when none is found; a row that is found is left as it is.
receive_task_assignee(u) ==
    /\ bot.op = "idle"
    /\ ~MembershipFound(u)
    /\ member_rows' = AddMembership(u)
    /\ UNCHANGED <<askVars, intentVars, dialogVars, sideVars, left_members, remVars, taskVars,
                   now, chat_admins, bot, reply>>

\* The admin commands, with members leaving, coming back, writing and being named.
NextAdmin ==
    \/ \E op \in {"setadmin", "removeadmin"}, caller \in Users, target \in Users :
          admin_command(op, caller, target)
    \/ setadmin_handler
    \/ removeadmin_handler
    \/ \E u \in Users : handle_left_chat_member(u)
    \/ \E u \in Users : handle_new_chat_members(u)
    \/ \E u \in Users : handle_message(u)
    \/ \E u \in Users : receive_task_assignee(u)

SpecAdmin == Init /\ [][NextAdmin]_vars

\* ------------------------------------------------------------- dialogues: updates
\* A message update: the slash-command it starts with ("tasks" stands for every
\* command that has a plain CommandHandler) or, for plain text, its words; whether
\* it came in a private chat; and what its text parses to as a date or time
\* (NoTime: DateParseError; the parsers refuse what is not after now).
Commands == {"task", "edit", "cost", "cancel", "tasks"}
Tokens == {"@bot", "napomni", "nl", "x"}
NoTime == 0
Message(command, text, private, at) ==
    [command |-> command, text |-> text, private |-> private, at |-> at]

AllTexts == UNION {[1..n -> Tokens] : n \in 1..MaxWords}
DialogTexts == {<<"x">>, <<"@bot", "x">>, <<"@bot", "napomni", "x">>}
ParsedTimes == {NoTime, MaxTime}
\* /task and /cost look at the kind of chat.
CommandMessages ==
    {Message(c, <<>>, FALSE, NoTime) : c \in Commands}
        \cup {Message(c, <<>>, TRUE, NoTime) : c \in {"task", "cost"}}
TextMessages(texts) ==
    {Message("none", t, p, at) : t \in texts, p \in BOOLEAN, at \in ParsedTimes}
DialogMessages == CommandMessages \cup TextMessages(DialogTexts)
\* Every text of up to MaxWords words, in either kind of chat.
MentionMessages == {Message("none", t, p, NoTime) : t \in AllTexts, p \in BOOLEAN}

\* filters.Regex(r"(?i)@bot"): re.search finds the mention anywhere.
MentionsBot(text) == \E i \in 1..Len(text) : text[i] = "@bot"
\* filters.Regex(r"(?i)напомни")
HasNapomni(text) == \E i \in 1..Len(text) : text[i] = "napomni"
\* filters.Regex(r"(?i)@bot.*напомни"): the word after the mention, with no line
\* break between them ("." does not match one).
MentionThenNapomni(text) ==
    \E i \in 1..Len(text) : \E j \in (i + 1)..Len(text) :
        /\ text[i] = "@bot"
        /\ text[j] = "napomni"
        /\ \A k \in (i + 1)..(j - 1) : text[k] # "nl"

\* A ConversationHandler keeps its state under (chat, user); /task and /cost only
\* start in the group, so a private chat has none.
ConvState(u, m, c) == IF m.private THEN "END" ELSE conversations[u][c]

EntryPoint == [task |-> "task_handler", edit |-> "edit_handler", cost |-> "cost_handler"]
StateHandler ==
    [TASK_TEXT |-> "receive_task_text", TASK_ASSIGNEE |-> "receive_task_assignee",
     TASK_DEADLINE |-> "receive_task_deadline", EDIT_VALUE |-> "receive_edit_value",
     COST_AMOUNT |-> "receive_cost_amount", COST_DESCRIPTION |-> "receive_cost_description"]

\* ConversationHandler.check_update: without a state only the entry point is tried;
\* in a state its handlers (filters.TEXT & ~filters.COMMAND) and then the
\* fallbacks (/cancel); allow_reentry is not set.
ConvCallback(u, m, c) ==
    LET s == ConvState(u, m, c) IN
    IF s = "END"
    THEN IF m.command = c THEN EntryPoint[c] ELSE "none"
    ELSE IF m.command = "none" THEN StateHandler[s]
    ELSE IF m.command = "cancel" THEN "cancel_handler"
    ELSE "none"

\* Application.process_update in group 0: the first handler, in the order of
\* setup_handlers, whose check_update accepts the update handles it alone.
Group0(u, m) ==
    LET task == ConvCallback(u, m, "task")
        edit == ConvCallback(u, m, "edit")
        cost == ConvCallback(u, m, "cost")
    IN
    IF task # "none" THEN <<"task", task>>
    ELSE IF edit # "none" THEN <<"edit", edit>>
    ELSE IF cost # "none" THEN <<"cost", cost>>
    ELSE IF m.command = "tasks" THEN <<"none", "tasks_handler">>
    ELSE IF m.command = "none" /\ MentionsBot(m.text) /\ ~HasNapomni(m.text)
    THEN <<"none", "mention_handler">>
    ELSE IF MentionThenNapomni(m.text) THEN <<"none", "remind_handler">>
    ELSE IF m.command = "none" /\ ~m.private THEN <<"none", "handle_task_details">>
    ELSE IF m.command = "none" THEN <<"none", "reminder_time_input_handler">>
    ELSE <<"none", "none">>

\* The update goes to the named callback.  In the dialogue actions reply is what
\* the handler of this update answered, "none" when it stayed silent.
Took(u, m, conv, name) ==
    /\ bot.op = "idle"
    /\ Group0(u, m) = <<conv, name>>
    /\ handled' = [by |-> name, user |-> u, msg |-> m]

\* A button press goes to its CallbackQueryHandler, an intent to its executor.
Pressed(u, name) ==
    /\ bot.op = "idle"
    /\ handled' = [by |-> name, user |-> u, msg |-> NoMessage]

\* The callback returns the conversation's next state.
Goes(u, conv, state) == conversations' = [conversations EXCEPT ![u][conv] = state]

\* context.user_data.clear()
Cleared(u) == user_data' = [user_data EXCEPT ![u] = NoUserData]

\* _create_task: the row of the finished dialogue; its deadline has parsed, so it
\* lies after now.
TaskRowAdded(u) ==
    /\ Len(tasks) < MaxTasks
    /\ Cardinality(Roots) < MaxRoots
    /\ tasks' = Append(tasks, NewTask(1, u, u, 1, MaxTime, "none", NULL))
    /\ nClose' = Append(nClose, 0)
    /\ nSucc' = Append(nSucc, 0)
    /\ UNCHANGED api

\* Reminder(...) added and flushed.
ReminderRowAdded(u, at) ==
    /\ Len(reminders) < MaxDialogReminders
    /\ reminders' = Append(reminders, NewReminder(u, u, at))
    /\ delivered' = Append(delivered, 0)
    /\ stamped' = Append(stamped, 0)
    /\ calls' = Append(calls, 0)
    /\ UNCHANGED sched

dialogRest == <<askVars, intentVars, memberVars, sideVars, now, chat_admins, bot>>

\* ------------------------------------------------------------- dialogues: /task
\* /task without arguments: group only; the flag is set and the text is asked for.
task_handler(u, m) ==
    /\ Took(u, m, "task", "task_handler")
    /\ IF m.private
       THEN reply' = "group_only" /\ UNCHANGED <<user_data, conversations>>
       ELSE /\ user_data' = [user_data EXCEPT ![u].in_conversation = TRUE]
            /\ Goes(u, "task", "TASK_TEXT")
            /\ reply' = "ask_task_text"
    /\ UNCHANGED <<pending_reminders, expenses, remVars, taskVars, dialogRest>>

\* _route_parsed_task: nothing more to ask creates the task; else the assignee or
\* the deadline is asked for.
route_parsed_task(u, m) ==
    \/ /\ TaskRowAdded(u)
       /\ Cleared(u)
       /\ Goes(u, "task", "END")
       /\ reply' = "task_created"
    \/ /\ \E s \in {"TASK_ASSIGNEE", "TASK_DEADLINE"} : Goes(u, "task", s)
       /\ reply' = "ask_more"
       /\ UNCHANGED <<user_data, taskVars>>

receive_task_text(u, m) ==
    /\ Took(u, m, "task", "receive_task_text")
    /\ route_parsed_task(u, m)
    /\ UNCHANGED <<pending_reminders, expenses, remVars, dialogRest>>

\* receive_task_assignee: an unknown name is asked for again, else the deadline is.
receive_task_assignee_text(u, m) ==
    /\ Took(u, m, "task", "receive_task_assignee")
    /\ \E s \in {"TASK_ASSIGNEE", "TASK_DEADLINE"} : Goes(u, "task", s)
    /\ reply' = "ask_more"
    /\ UNCHANGED <<user_data, pending_reminders, expenses, remVars, taskVars, dialogRest>>

\* receive_task_deadline: a date that does not parse is asked for again.
receive_task_deadline(u, m) ==
    /\ Took(u, m, "task", "receive_task_deadline")
    /\ IF m.at = NoTime
       THEN /\ reply' = "date_not_understood"
            /\ UNCHANGED <<user_data, conversations, taskVars>>
       ELSE /\ TaskRowAdded(u)
            /\ Cleared(u)
            /\ Goes(u, "task", "END")
            /\ reply' = "task_created"
    /\ UNCHANGED <<pending_reminders, expenses, remVars, dialogRest>>

\* ------------------------------------------------------------- dialogues: /cost
cost_handler(u, m) ==
    /\ Took(u, m, "cost", "cost_handler")
    /\ IF m.private
       THEN reply' = "group_only" /\ UNCHANGED <<user_data, conversations>>
       ELSE /\ user_data' = [user_data EXCEPT ![u].in_conversation = TRUE]
            /\ Goes(u, "cost", "COST_AMOUNT")
            /\ reply' = "ask_amount"
    /\ UNCHANGED <<pending_reminders, expenses, remVars, taskVars, dialogRest>>

\* receive_cost_amount: a number goes on to the description.
receive_cost_amount(u, m) ==
    /\ Took(u, m, "cost", "receive_cost_amount")
    /\ \E s \in {"COST_AMOUNT", "COST_DESCRIPTION"} : Goes(u, "cost", s)
    /\ reply' = "ask_more"
    /\ UNCHANGED <<user_data, pending_reminders, expenses, remVars, taskVars, dialogRest>>

\* receive_cost_description and _create_expense: the row, then user_data.clear().
receive_cost_description(u, m) ==
    /\ Took(u, m, "cost", "receive_cost_description")
    /\ expenses < MaxExpenses
    /\ expenses' = expenses + 1
    /\ Cleared(u)
    /\ Goes(u, "cost", "END")
    /\ reply' = "expense_added"
    /\ UNCHANGED <<pending_reminders, remVars, taskVars, dialogRest>>

\* ------------------------------------------------------------- dialogues: /cancel
\* cancel_handler, the fallback of the three conversations: user_data is cleared
\* only under the in_conversation flag; the conversation that took the update ends.
cancel_handler(u, m) ==
    /\ \E c \in {"task", "edit", "cost"} :
          /\ Took(u, m, c, "cancel_handler")
          /\ Goes(u, c, "END")
    /\ IF user_data[u].in_conversation
       THEN Cleared(u) /\ reply' = "cancelled"
       ELSE reply' = "nothing_to_cancel" /\ UNCHANGED user_data
    /\ UNCHANGED <<pending_reminders, expenses, remVars, taskVars, dialogRest>>

\* A command no handler of group 0 accepts (/cancel or /task outside the states that
\* name it): the update passes by.
no_handler(u, m) ==
    /\ Took(u, m, "none", "none")
    /\ reply' = "none"
    /\ UNCHANGED <<user_data, conversations, pending_reminders, expenses,
                   remVars, taskVars, dialogRest>>

\* /edit without arguments, answering a task: the field buttons are shown and the
\* conversation ends where it began.
edit_command(u, m) ==
    /\ Took(u, m, "edit", "edit_handler")
    /\ reply' = IF m.private THEN "dm_edit_hint" ELSE "what_to_change"
    /\ UNCHANGED <<user_data, conversations, pending_reminders, expenses,
                   remVars, taskVars, dialogRest>>

\* Any other command: its CommandHandler answers; the dialogue data is not touched.
tasks_handler(u, m) ==
    /\ Took(u, m, "none", "tasks_handler")
    /\ reply' = "tasks_listed"
    /\ UNCHANGED <<user_data, conversations, pending_reminders, expenses,
                   remVars, taskVars, dialogRest>>

\* task_callback_handler, action edit_field: the flag is set (with the field and
\* the task, which nothing reads) and the value is asked for.
task_callback_edit_field(u) ==
    /\ Pressed(u, "task_callback_handler")
    /\ user_data' = [user_data EXCEPT ![u].in_conversation = TRUE]
    /\ reply' = "edit_value_asked"
    /\ UNCHANGED <<conversations, pending_reminders, expenses,
                   remVars, taskVars, dialogRest>>

\* ------------------------------------------------------------- dialogues: mentions
\* mention_handler: the text after the mention is answered or becomes a task.
mention_handler(u, m) ==
    /\ Took(u, m, "none", "mention_handler")
    /\ \/ reply' = "mention_answered" /\ UNCHANGED taskVars
       \/ TaskRowAdded(u) /\ reply' = "task_created"
    /\ UNCHANGED <<user_data, conversations, pending_reminders, expenses,
                   remVars, dialogRest>>

\* The words after the first "напомни" that follows the mention.
ReminderText(text) ==
    LET j == CHOOSE j \in 1..Len(text) :
                 /\ \E i \in 1..(j - 1) :
                       /\ text[i] = "@bot"
                       /\ \A k \in (i + 1)..(j - 1) : text[k] \notin {"nl", "napomni"}
                 /\ text[j] = "napomni"
    IN  SelectSeq(SubSeq(text, j + 1, Len(text)), LAMBDA w : w # "nl")

\* _compute_reminder_hash: the keys of the stashed reminders.
ReminderHashes == 1..NReminderHashes

\* The stash of a reminder that has no time yet, and the flag of who is asked.
Stashed(u, h) ==
    /\ pending_reminders' = pending_reminders \cup {h}
    /\ user_data' = [user_data EXCEPT ![u].reminder_waiting_time = h]

\* remind_handler: group only; a request without a time is stashed under its hash
\* and the time buttons are shown; a time that does not parse is refused; with a
\* time the reminder is created.
remind_handler(u, m) ==
    /\ Took(u, m, "none", "remind_handler")
    /\ IF m.private
       THEN reply' = "none" /\ UNCHANGED <<user_data, pending_reminders, remVars>>
       ELSE IF ReminderText(m.text) = <<>>
       THEN reply' = "remind_what" /\ UNCHANGED <<user_data, pending_reminders, remVars>>
       ELSE IF m.at = NoTime
       THEN \/ /\ \E h \in ReminderHashes : Stashed(u, h)
               /\ reply' = "remind_when"
               /\ UNCHANGED remVars
            \/ /\ reply' = "time_not_understood"
               /\ UNCHANGED <<user_data, pending_reminders, remVars>>
       ELSE /\ ReminderRowAdded(u, m.at)
            /\ reply' = "reminder_created"
            /\ UNCHANGED <<user_data, pending_reminders>>
    /\ UNCHANGED <<conversations, expenses, taskVars, dialogRest>>

\* execute_reminder of the intent executors, for a reminder without a time, in a
\* group or a private chat: the same stash and flag.
execute_reminder_without_time(u) ==
    /\ Pressed(u, "execute_reminder")
    /\ \E h \in ReminderHashes : Stashed(u, h)
    /\ reply' = "remind_when"
    /\ UNCHANGED <<conversations, expenses, remVars, taskVars, dialogRest>>

\* _handle_time_selection: the buttons under a stashed reminder.
handle_time_selection(u, option, h) ==
    /\ Pressed(u, "reminder_callback_handler")
    /\ IF h \notin pending_reminders
       THEN reply' = "pending_expired" /\ UNCHANGED <<user_data, pending_reminders, remVars>>
       ELSE IF option = "manual"
       THEN /\ user_data' = [user_data EXCEPT ![u].reminder_waiting_time = h]
            /\ reply' = "enter_time"
            /\ UNCHANGED <<pending_reminders, remVars>>
       ELSE /\ ReminderRowAdded(u, MaxTime)
            /\ pending_reminders' = pending_reminders \ {h}
            /\ user_data' = [user_data EXCEPT ![u].reminder_waiting_time = 0]
            /\ reply' = "reminder_created"
    /\ UNCHANGED <<conversations, expenses, taskVars, dialogRest>>

\* reminder_time_input_handler: without the flag nothing; a stash that is gone
\* drops the flag; a time that does not parse is asked for again; else the
\* reminder is created, the stash deleted and the flag dropped.
reminder_time_input_handler(u, m) ==
    /\ Took(u, m, "none", "reminder_time_input_handler")
    /\ LET h == user_data[u].reminder_waiting_time IN
       IF h = 0
       THEN reply' = "none" /\ UNCHANGED <<user_data, pending_reminders, remVars>>
       ELSE IF h \notin pending_reminders
       THEN /\ user_data' = [user_data EXCEPT ![u].reminder_waiting_time = 0]
            /\ reply' = "none"
            /\ UNCHANGED <<pending_reminders, remVars>>
       ELSE IF m.at = NoTime
       THEN reply' = "time_not_understood" /\ UNCHANGED <<user_data, pending_reminders, remVars>>
       ELSE /\ ReminderRowAdded(u, m.at)
            /\ pending_reminders' = pending_reminders \ {h}
            /\ user_data' = [user_data EXCEPT ![u].reminder_waiting_time = 0]
            /\ reply' = "reminder_created"
    /\ UNCHANGED <<conversations, expenses, taskVars, dialogRest>>

\* ------------------------------------------------------------- dialogues: suggested tasks
\* suggest_task_callback: the buttons under a suggested task ask for its assignee
\* or its deadline.
suggest_task_callback(u) ==
    /\ Pressed(u, "suggest_task_callback")
    /\ \/ user_data' = [user_data EXCEPT ![u].waiting_assignee_for = TRUE]
       \/ user_data' = [user_data EXCEPT ![u].waiting_deadline_for = TRUE]
    /\ reply' = "ask_more"
    /\ UNCHANGED <<conversations, pending_reminders, expenses,
                   remVars, taskVars, dialogRest>>

\* handle_task_details, the suggestion still stored: without a flag nothing; the
\* assignee's name moves on to the deadline unless several members match; a
\* deadline that parses creates the task.
handle_task_details(u, m) ==
    /\ Took(u, m, "none", "handle_task_details")
    /\ IF ~user_data[u].waiting_assignee_for /\ ~user_data[u].waiting_deadline_for
       THEN reply' = "none" /\ UNCHANGED <<user_data, taskVars>>
       ELSE IF user_data[u].waiting_assignee_for
       THEN \/ reply' = "several_match" /\ UNCHANGED <<user_data, taskVars>>
            \/ /\ user_data' = [user_data EXCEPT ![u].waiting_assignee_for = FALSE,
                                                 ![u].waiting_deadline_for = TRUE]
               /\ reply' = "ask_deadline"
               /\ UNCHANGED taskVars
       ELSE IF m.at = NoTime
       THEN reply' = "date_not_understood" /\ UNCHANGED <<user_data, taskVars>>
       ELSE /\ user_data' = [user_data EXCEPT ![u].waiting_deadline_for = FALSE]
            /\ TaskRowAdded(u)
            /\ reply' = "task_created"
    /\ UNCHANGED <<conversations, pending_reminders, expenses, remVars, dialogRest>>

\* ------------------------------------------------------------- dialogues: specifications
Dispatch(u, m) ==
    \/ task_handler(u, m)
    \/ receive_task_text(u, m)
    \/ receive_task_assignee_text(u, m)
    \/ receive_task_deadline(u, m)
    \/ cost_handler(u, m)
    \/ receive_cost_amount(u, m)
    \/ receive_cost_description(u, m)
    \/ cancel_handler(u, m)
    \/ no_handler(u, m)
    \/ edit_command(u, m)
    \/ tasks_handler(u, m)
    \/ mention_handler(u, m)
    \/ remind_handler(u, m)
    \/ reminder_time_input_handler(u, m)
    \/ handle_task_details(u, m)

NextDialog ==
    \/ \E u \in Talkers : \E m \in DialogMessages : Dispatch(u, m)
    \/ \E u \in Talkers : task_callback_edit_field(u)
    \/ \E u \in Talkers : execute_reminder_without_time(u)
    \/ \E u \in Talkers : \E h \in ReminderHashes : \E o \in {"manual", "1h"} :
          handle_time_selection(u, o, h)
    \/ \E u \in Talkers : suggest_task_callback(u)

SpecDialog == Init /\ [][NextDialog]_vars

\* The plain texts outside any dialogue.
NextMention ==
    \E u \in Talkers : \E m \in MentionMessages :
        \/ mention_handler(u, m)
        \/ remind_handler(u, m)
        \/ reminder_time_input_handler(u, m)
        \/ handle_task_details(u, m)

SpecMention == Init /\ [][NextMention]_vars

\* ------------------------------------------------------------- rules engine
\* Texts are sequences of tokens: the words in Latin transliteration and lower
\* case (classify lowers and strips the text), a number, and the punctuation
\* marks, which follow their word without a space.
\*
\* The literals of TASK_PATTERNS, REMINDER_PATTERNS and QUESTION_PATTERNS in
\* intent_router.py are not Cyrillic text: each is the UTF-8 bytes of the Russian
\* word read as ISO-8859-11 and stored again as UTF-8. Such a literal is written
\* here "~" followed by the word it came from ("~nado"); "nado" is the Russian
\* word itself.
\* \w+: a token that is no punctuation mark
IsWord(tok) == tok \notin {"?", ",", "!"}

HasWord(text, words) == \E i \in 1..Len(text) : text[i] \in words

\* first, then one more word, then last, with spaces only between them
ThreeInARow(text, first, last) ==
    \E i \in 1..(Len(text) - 2) :
        text[i] \in first /\ IsWord(text[i + 1]) /\ text[i + 2] \in last

TwoInARow(text, first, last) ==
    \E i \in 1..(Len(text) - 1) : text[i] \in first /\ text[i + 1] \in last

\* The texts hold no word that merely begins with a literal, so the patterns that
\* end without \b match whole words here.
TASK_PATTERNS(text) ==
    \/ HasWord(text, {"~nado", "~nuzhno", "~neobhodimo"})
    \/ HasWord(text, {"~sdelat", "~dorabotat", "~ispravit", "~dobavit", "~pochinit"})
    \/ ThreeInARow(text, {"~mozhesh", "~mozhete"}, {"~sdelat", "~dobavit", "~ispravit"})
    \/ ThreeInARow(text, {"~davay", "~davayte"}, {"~sdelaem", "~dobavim", "~ispravim"})

REMINDER_PATTERNS(text) ==
    \/ HasWord(text, {"~napomni", "~napomnit", "~napominanie"})
    \/ \E i \in 1..(Len(text) - 2) :
          /\ text[i] = "~cherez"
          /\ text[i + 1] = "30"
          /\ text[i + 2] \in {"~minut", "~chas", "~den", "~dn"}
    \/ TwoInARow(text, {"~cherez"}, {"~polchasa", "~chas", "~den"})
    \/ \E i \in 1..Len(text) : \E j \in (i + 1)..Len(text) :
          text[i] \in {"~zavtra", "~poslezavtra"} /\ text[j] \in {"~napomni", "~napomnit"}

QUESTION_PATTERNS(text) ==
    \/ /\ text # <<>>
       /\ text[1] \in {"~kak", "~chto", "~pochemu", "~zachem", "~gde", "~kogda", "~kto",
                       "~kakoy", "~kakaya", "~kakie"}
    \/ TwoInARow(text, {"~mozhesh", "~mozhete"},
                 {"~pomoch", "~obyasnit", "~rasskazat", "~podskazat"})
    \/ HasWord(text, {"~pomogi", "~pomogite", "~podskazhi", "~podskazhite", "~obyasni"})
    \/ (text # <<>> /\ text[Len(text)] = "?")

\* RulesEngine.classify: tasks first, then reminders, then questions.
RulesEngine_classify(text) ==
    IF TASK_PATTERNS(text) THEN "task"
    ELSE IF REMINDER_PATTERNS(text) THEN "reminder"
    ELSE IF QUESTION_PATTERNS(text) THEN "question"
    ELSE "none"

\* test_rules_engine: the table of phrases and the type expected of each.
test_cases ==
    << [text |-> <<"nado", "kupit", "moloko">>, expected |-> "task"],
       [text |-> <<"nuzhno", "dorabotat", "funkciyu">>, expected |-> "task"],
       [text |-> <<"sdelat", "otchet", "do", "zavtra">>, expected |-> "task"],
       [text |-> <<"mozhesh", "dobavit", "knopku", "?">>, expected |-> "task"],
       [text |-> <<"napomni", "mne", "cherez", "chas">>, expected |-> "reminder"],
       [text |-> <<"cherez", "30", "minut", "pozvonit", "vase">>, expected |-> "reminder"],
       [text |-> <<"zavtra", "napomni", "pro", "vstrechu">>, expected |-> "reminder"],
       [text |-> <<"kak", "rabotaet", "eta", "funkciya", "?">>, expected |-> "question"],
       [text |-> <<"chto", "takoe", "rekursiya", "?">>, expected |-> "question"],
       [text |-> <<"pochemu", "ne", "rabotaet", "kod", "?">>, expected |-> "question"],
       [text |-> <<"mozhesh", "pomoch", "s", "bagom", "?">>, expected |-> "question"],
       [text |-> <<"privet", ",", "kak", "dela", "?">>, expected |-> "none"],
       [text |-> <<"soglasen", "s", "toboy">>, expected |-> "none"],
       [text |-> <<"otlichno", "!">>, expected |-> "none"] >>

\* Further texts: Russian words, one of them also as the file stores it, a stored
\* reminder word, and a question mark, in every order.
RouterTexts ==
    UNION {[1..n -> {"nado", "~nado", "~napomni", "kak", "dela", "?"}] :
              n \in 1..MaxRuleWords}
RuleTexts == {test_cases[i].text : i \in 1..Len(test_cases)} \cup RouterTexts

\* classify_intent hands the text to the rules engine first.
rules_classify ==
    /\ handled.by = "none"
    /\ handled' = [handled EXCEPT !.by = "RulesEngine.classify"]
    /\ reply' = RulesEngine_classify(handled.msg.text)
    /\ UNCHANGED <<remVars, taskVars, askVars, intentVars, memberVars, sideVars, now,
                   chat_admins, bot, user_data, conversations, pending_reminders,
                   expenses>>

InitRules == \E text \in RuleTexts : InitAt(1, [NoUpdate EXCEPT !.msg.text = text])

NextRules == rules_classify

SpecRules == InitRules /\ [][NextRules]_vars

\* ------------------------------------------------------------- intents: classification
\* The characters of a token of RouterTexts; a stored literal has two for each
\* letter of its word.
Chars(tok) ==
    CASE tok = "?" -> 1
      [] tok = "kak" -> 3
      [] tok \in {"nado", "dela"} -> 4
      [] tok = "~nado" -> 8
      [] tok = "~napomni" -> 14

RECURSIVE TextLength(_)
\* len(text.strip()): a space stands before every token but the first and the
\* punctuation marks.
TextLength(text) ==
    IF text = <<>> THEN 0
    ELSE LET n == Len(text)
         IN  TextLength(SubSeq(text, 1, n - 1)) + Chars(text[n])
                + (IF n > 1 /\ IsWord(text[n]) THEN 1 ELSE 0)

MIN_MESSAGE_LENGTH == 10

\* Mutant: a question found by the rules gets the confidence of automatic
\* execution.
rules_confidence_Sure(ty) == IF ty = "question" THEN auto_execute ELSE 75

\* The confidence RulesEngine.classify gives its result, in hundredths.
rules_confidence(ty) == IF ty = "question" THEN 80 ELSE 75

\* classify_intent returned None.
NoIntent == IntentResult("none", 0, Data(FALSE, FALSE, FALSE))

\* Mutant: the rules engine tried before the length is looked at.
classify_intent_RulesFirst(text) ==
    LET ty == RulesEngine_classify(text)
    IN  IF ty # "none"
          THEN {[tier |-> "rules",
                 result |-> IntentResult(ty, rules_confidence(ty), Data(FALSE, FALSE, FALSE))]}
        ELSE IF TextLength(text) < MIN_MESSAGE_LENGTH
          THEN {[tier |-> "too_short", result |-> NoIntent]}
        ELSE {[tier |-> "no_intent", result |-> NoIntent]}
                \cup {[tier |-> "llm", result |-> r] : r \in Intents}

\* classify_intent: what it may return for a text, and from which tier. The rules
\* engine extracts the text only; the LLM tier runs when a key is configured and
\* returns any result, or None for a reply that does not parse.
classify_intent(text) ==
    LET ty == RulesEngine_classify(text)
    IN  IF TextLength(text) < MIN_MESSAGE_LENGTH
          THEN {[tier |-> "too_short", result |-> NoIntent]}
        ELSE IF ty # "none"
          THEN {[tier |-> "rules",
                 result |-> IntentResult(ty, rules_confidence(ty), Data(FALSE, FALSE, FALSE))]}
        ELSE {[tier |-> "no_intent", result |-> NoIntent]}
                \cup {[tier |-> "llm", result |-> r] : r \in Intents}

\* intent_router_handler up to the end of classify_intent, for the text of a
\* message that passes its filters (no dialogue flag, no mention of the bot);
\* without a result the handler returns.
intent_router_text(u, h) ==
    /\ bot.op = "idle"
    /\ handled.by = "none"
    /\ \E c \in classify_intent(handled.msg.text) :
          /\ handled' = [handled EXCEPT !.by = c.tier, !.user = u]
          /\ bot' = IF c.tier \in {"rules", "llm"}
                      THEN [BotIdle EXCEPT !.op = "route", !.user = u, !.id = h,
                                           !.seen = c.result]
                    ELSE bot
    /\ UNCHANGED <<remVars, taskVars, askVars, intentVars, memberVars, sideVars, now,
                   chat_admins, reply, user_data, conversations, pending_reminders,
                   expenses>>

InitRouter == \E text \in RouterTexts : InitAt(1, [NoUpdate EXCEPT !.msg.text = text])

\* One routed message, and the buttons of its confirmation prompt.
NextRouter ==
    \/ \E u \in Users, h \in Hashes : intent_router_text(u, h)
    \/ intent_router_handler
    \/ \E p \in Users, a \in {"confirm", "dismiss"}, h \in Hashes :
          intent_callback_answer(p, a, h)
    \/ intent_callback_handler

SpecRouter == InitRouter /\ [][NextRouter]_vars

\* ------------------------------------------------------------- task detector
CHECK_INTERVAL_MESSAGES == 20

\* Mutant: every group text counted, whatever its length.
analyze_for_tasks_AnyLength(c, long) ==
    LET d == task_detector[c]
        seen == [d EXCEPT !.messages = @ + 1, !.long = IF long THEN @ + 1 ELSE @]
    IN  /\ d.messages < MaxMessages
        /\ IF d.counter + 1 < CHECK_INTERVAL_MESSAGES
             THEN /\ task_detector' = [task_detector EXCEPT ![c] = [seen EXCEPT !.counter = @ + 1]]
                  /\ reply' = "none"
           ELSE /\ task_detector' = [task_detector EXCEPT ![c] = [seen EXCEPT !.counter = 0]]
                /\ reply' = "task_analysis"
        /\ UNCHANGED <<remVars, taskVars, askVars, intentVars, memberVars, dialogVars, warned,
                       now, chat_admins, bot>>

\* analyze_for_tasks for a text of chat c that is no command (the handler's filter
\* passes group texts only), up to the reset of the counter; long: the text has
\* MIN_MESSAGE_LENGTH characters or more. After the reset the analysis runs if an
\* LLM key is configured and the chat has three messages of the last hour.
analyze_for_tasks(c, long) ==
    LET d == task_detector[c]
        seen == [d EXCEPT !.messages = @ + 1, !.long = IF long THEN @ + 1 ELSE @]
    IN  /\ d.messages < MaxMessages
        /\ IF ~long
             THEN /\ task_detector' = [task_detector EXCEPT ![c] = seen]
                  /\ reply' = "none"
           ELSE IF d.counter + 1 < CHECK_INTERVAL_MESSAGES
             THEN /\ task_detector' = [task_detector EXCEPT ![c] = [seen EXCEPT !.counter = @ + 1]]
                  /\ reply' = "none"
           ELSE /\ task_detector' = [task_detector EXCEPT ![c] = [seen EXCEPT !.counter = 0]]
                /\ reply' = "task_analysis"
        /\ UNCHANGED <<remVars, taskVars, askVars, intentVars, memberVars, dialogVars, warned,
                       now, chat_admins, bot>>

NextDetector == \E c \in Chats, long \in BOOLEAN : analyze_for_tasks(c, long)

SpecDetector == Init /\ [][NextDetector]_vars

\* ------------------------------------------------------------- deadlines
\* A clock reading is a day and a time of that day, day * SlotsPerDay + slot; day
\* 0 is a Monday. The times of day, in their order: 00:00, 00:01, 09:00, 12:00,
\* 18:00, 23:00.
At(day, slot) == day * SlotsPerDay + slot
DayOf(t) == t \div SlotsPerDay
weekday(t) == DayOf(t) % 7

\* hour=0, minute=1
Slot0001 == 1
Slot0900 == 2
Slot1200 == 3
Slot1800 == 4
Slot2300 == 5

\* Texts are sequences of letters, one string per Cyrillic letter in Latin
\* transliteration ("'" is the soft sign), and " " between words.

\* sub in s
Contains(sub, s) ==
    \E i \in 0..(Len(s) - Len(sub)) : SubSeq(s, i + 1, i + Len(sub)) = sub

RECURSIVE Without(_, _)
\* s.replace(sub, "")
Without(sub, s) ==
    IF Len(s) < Len(sub) \/ sub = <<>> THEN s
    ELSE IF SubSeq(s, 1, Len(sub)) = sub
      THEN Without(sub, SubSeq(s, Len(sub) + 1, Len(s)))
    ELSE <<s[1]>> \o Without(sub, Tail(s))

RECURSIVE strip(_)
strip(s) ==
    IF s # <<>> /\ s[1] = " " THEN strip(Tail(s))
    ELSE IF s # <<>> /\ s[Len(s)] = " " THEN strip(SubSeq(s, 1, Len(s) - 1))
    ELSE s

\* The dictionaries in the order of their entries, which is the order the
\* functions try them in.
WEEKDAYS_RU ==
    << [key |-> <<"p", "o", "n", "e", "d", "e", "l", "'", "n", "i", "k">>, weekday |-> 0],
       [key |-> <<"p", "n">>, weekday |-> 0],
       [key |-> <<"v", "t", "o", "r", "n", "i", "k">>, weekday |-> 1],
       [key |-> <<"v", "t">>, weekday |-> 1],
       [key |-> <<"s", "r", "e", "d", "a">>, weekday |-> 2],
       [key |-> <<"s", "r", "e", "d", "u">>, weekday |-> 2],
       [key |-> <<"s", "r">>, weekday |-> 2],
       [key |-> <<"ch", "e", "t", "v", "e", "r", "g">>, weekday |-> 3],
       [key |-> <<"ch", "t">>, weekday |-> 3],
       [key |-> <<"p", "ya", "t", "n", "i", "c", "a">>, weekday |-> 4],
       [key |-> <<"p", "ya", "t", "n", "i", "c", "u">>, weekday |-> 4],
       [key |-> <<"p", "t">>, weekday |-> 4],
       [key |-> <<"s", "u", "b", "b", "o", "t", "a">>, weekday |-> 5],
       [key |-> <<"s", "u", "b", "b", "o", "t", "u">>, weekday |-> 5],
       [key |-> <<"s", "b">>, weekday |-> 5],
       [key |-> <<"v", "o", "s", "k", "r", "e", "s", "e", "n", "'", "e">>, weekday |-> 6],
       [key |-> <<"v", "o", "s", "k", "r">>, weekday |-> 6],
       [key |-> <<"v", "s">>, weekday |-> 6] >>

TIME_OF_DAY ==
    << [key |-> <<"u", "t", "r", "o", "m">>, slot |-> Slot0900],
       [key |-> <<"u", "t", "r", "o">>, slot |-> Slot0900],
       [key |-> <<"d", "n", "yo", "m">>, slot |-> Slot1200],
       [key |-> <<"d", "n", "e", "m">>, slot |-> Slot1200],
       [key |-> <<"d", "e", "n", "'">>, slot |-> Slot1200],
       [key |-> <<"v", "e", "ch", "e", "r", "o", "m">>, slot |-> Slot1800],
       [key |-> <<"v", "e", "ch", "e", "r">>, slot |-> Slot1800],
       [key |-> <<"n", "o", "ch", "'", "yu">>, slot |-> Slot2300],
       [key |-> <<"n", "o", "ch", "'">>, slot |-> Slot2300] >>

\* The texts parsed here.
zavtra == <<"z", "a", "v", "t", "r", "a">>
poslezavtra == <<"p", "o", "s", "l", "e">> \o zavtra
segodnya == <<"s", "e", "g", "o", "d", "n", "ya">>
cherez_den == <<"ch", "e", "r", "e", "z", " ", "d", "e", "n", "'">>
DeadlineTexts ==
    { zavtra, poslezavtra, segodnya, cherez_den,
      zavtra \o <<" ">> \o TIME_OF_DAY[6].key,
      TIME_OF_DAY[1].key,
      <<"p", "o", "t", "o", "m">> }

\* The first entry of a dictionary whose key the text contains, 0 if none.
FirstIn(dict, text) ==
    IF \E i \in 1..Len(dict) : Contains(dict[i].key, text)
      THEN CHOOSE i \in 1..Len(dict) :
              /\ Contains(dict[i].key, text)
              /\ \A j \in 1..(i - 1) : ~Contains(dict[j].key, text)
    ELSE 0

\* _extract_time: the time of day a text names and the text without it; no time
\* is NoTime. The texts hold no digit, so the two clock patterns find nothing.
extract_time(text) ==
    LET i == FirstIn(TIME_OF_DAY, text)
    IN  IF i # 0
          THEN [slot |-> TIME_OF_DAY[i].slot, given |-> TRUE,
                remaining |-> strip(Without(TIME_OF_DAY[i].key, text))]
        ELSE [slot |-> NoTime, given |-> FALSE, remaining |-> text]

\* _parse_relative_time at clock reading t: of its patterns the texts can only
\* meet "cherez den'" (they hold no digit, no number word and no other unit);
\* the seconds this branch keeps are below the grain of the clock.
parse_relative_time(text, t) ==
    IF Contains(cherez_den, text) THEN At(DayOf(t) + 1, Slot0001) ELSE NoTime

\* _parse_weekday at clock reading t
parse_weekday(text, t) ==
    LET time == extract_time(text)
        slot == IF time.given THEN time.slot ELSE Slot0001
        i == FirstIn(WEEKDAYS_RU, time.remaining)
        days_ahead == WEEKDAYS_RU[i].weekday - weekday(t)
    IN  IF i = 0 THEN NoTime
        ELSE At(DayOf(t) + (IF days_ahead <= 0 THEN days_ahead + 7 ELSE days_ahead), slot)

\* _parse_date_expression at clock reading t; the month and day.month branches
\* need a digit.
parse_date_expression(text, t) ==
    LET time == extract_time(text)
        default == IF time.given THEN time.slot ELSE Slot0001
        target == At(DayOf(t), time.slot)
    IN  IF time.given /\ strip(time.remaining) = <<>>
          THEN (IF target <= t THEN At(DayOf(t) + 1, time.slot) ELSE target)
        ELSE IF Contains(segodnya, time.remaining)
          THEN At(DayOf(t), IF time.given THEN time.slot ELSE Slot1200)
        ELSE IF Contains(zavtra, time.remaining) THEN At(DayOf(t) + 1, default)
        ELSE IF Contains(poslezavtra, time.remaining) THEN At(DayOf(t) + 2, default)
        ELSE NoTime

\* parse_deadline at clock reading t; NoTime stands for DateParseError.
parse_deadline(text, t) ==
    LET relative == parse_relative_time(strip(text), t)
        day == parse_weekday(strip(text), t)
        result == IF relative # NoTime THEN relative
                  ELSE IF day # NoTime THEN day
                  ELSE parse_date_expression(strip(text), t)
    IN  IF strip(text) = <<>> THEN NoTime
        ELSE IF result = NoTime THEN NoTime
        ELSE IF result <= t THEN NoTime
        ELSE result

\* A handler parses the deadline its message gives.
parse_deadline_call ==
    /\ handled.by = "none"
    /\ handled' = [handled EXCEPT !.by = "parse_deadline",
                                  !.msg.at = parse_deadline(handled.msg.text, now)]
    /\ UNCHANGED <<remVars, taskVars, askVars, intentVars, memberVars, sideVars, now,
                   chat_admins, bot, reply, user_data, conversations,
                   pending_reminders, expenses>>

InitDeadline ==
    \E t \in 0..(ClockDays * SlotsPerDay - 1) : \E text \in DeadlineTexts :
        InitAt(t, [NoUpdate EXCEPT !.msg.text = text])

NextDeadline == parse_deadline_call

SpecDeadline == InitDeadline /\ [][NextDeadline]_vars

\* ============================================================= claims
NoDeliveryRunning == sched.rid = 0 /\ sched.queue = <<>>

\* C1: over sweeps, direct delivery calls and user actions, a reminder gets at most
\* one accepted reminder message and at most one sent stamp, and a stamped
\* reminder has had exactly its one message.
C1_DeliveredAtMostOnce ==
    \A r \in ReminderIds :
        /\ delivered[r] <= 1
        /\ stamped[r] <= 1
        /\ stamped[r] = 1 => delivered[r] = 1

\* A sent reminder on which delivery was invoked once more and which was skipped.
C1_Witness ==
    /\ Len(reminders) = 1
    /\ reminders[1].status = "sent"
    /\ delivered[1] = 1 /\ stamped[1] = 1
    /\ sched.last = "skipped"

\* C7: a cancel request for a reminder that is not pending is answered "not
\* active": no column of any reminder changes and no cancellation stays in flight.
C7_CancelOnlyPending ==
    [][\A u \in Users, r \in ReminderIds :
         (cancel_reminder_check(u, r) /\ reminders[r].status # "pending")
            => /\ reminders' = reminders
               /\ bot'.op = "idle"
               /\ reply' = "reminder_not_active"]_vars

\* A sent reminder after a refused cancel request: no cancel column is set.
C7_Witness ==
    /\ Len(reminders) = 1
    /\ reminders[1].status = "sent"
    /\ reminders[1].cancelled_at = NULL /\ reminders[1].cancelled_by = NULL
    /\ reply = "reminder_not_active"
    /\ bot.op = "idle"

\* C8 as stated: after two invocations of delivery on a reminder, one after the
\* other, exactly one message went out and the reminder is sent.
C8_ExactlyOneAfterTwo ==
    \A r \in ReminderIds :
        (calls[r] >= 2 /\ NoDeliveryRunning)
            => delivered[r] = 1 /\ reminders[r].status = "sent"

\* C8 amended: after two invocations at most one message went out; if one did,
\* the reminder is sent and stamped once; if none did, it is still pending.
C8_AtMostOneAfterTwo ==
    \A r \in ReminderIds :
        (calls[r] >= 2 /\ NoDeliveryRunning)
            => /\ delivered[r] <= 1
               /\ delivered[r] = 1 =>
                    (reminders[r].status = "sent" /\ reminders[r].sent_at # NULL
                     /\ stamped[r] = 1)
               /\ delivered[r] = 0 =>
                    (reminders[r].status = "pending" /\ reminders[r].sent_at = NULL)

\* Two invocations: the first delivered at an earlier tick, the second was skipped.
C8_Witness ==
    /\ Len(reminders) = 1
    /\ calls[1] = 2 /\ NoDeliveryRunning
    /\ sched.last = "skipped"
    /\ delivered[1] = 1
    /\ reminders[1].status = "sent" /\ reminders[1].sent_at < now

Range(q) == {q[i] : i \in 1..Len(q)}

\* What C9 says of one step of the delivery.
C9_Step ==
    /\ (sched.pc = "group" /\ sched'.pc = "loop")
          => (reminders' = reminders /\ delivered' = delivered
              /\ sched'.last = "failed")
    /\ (sched.pc = "idle" /\ sched'.pc = "loop")
          => (\A r \in ReminderIds :
                (reminders[r].status = "pending" /\ reminders[r].remind_at <= now)
                    => r \in Range(sched'.queue))
    /\ (sched.pc \in {"dm", "group"} /\ sched' # sched
            /\ delivered'[sched.rid] > delivered[sched.rid])
          => sched'.pc = "stamp"
    /\ (sched.pc = "stamp" /\ sched'.pc = "loop")
          => (reminders'[sched.rid].status = "sent"
              /\ reminders'[sched.rid].sent_at = now /\ now # NULL)

\* C9: when both attempts fail the delivery changes no column (a pending reminder
\* stays pending, sent_at NULL) and every sweep takes up every due pending
\* reminder again; when an attempt is accepted the stamp follows and sets status
\* sent and sent_at.
C9_FailedStaysPending ==
    /\ [](\A r \in ReminderIds : delivered[r] = 0 =>
              (reminders[r].status # "sent" /\ reminders[r].sent_at = NULL))
    /\ [][C9_Step]_vars

\* A due reminder whose two attempts have just failed: still pending, no sent_at.
C9_Witness ==
    /\ Len(reminders) = 1
    /\ reminders[1].status = "pending" /\ reminders[1].sent_at = NULL
    /\ reminders[1].remind_at <= now
    /\ delivered[1] = 0
    /\ sched.pc = "loop" /\ sched.last = "failed"

\* Who may close task t according to the claims: assignee, author, chat admin.
MayClose(t) == {tasks[t].assignee_id, tasks[t].author_id} \cup chat_admins

\* Who may edit task t according to the claims: author, chat admin.
MayEdit(t) == {tasks[t].author_id} \cup chat_admins

\* A close request for task t that loaded the row open commits in this step.
CommitsLoadedOpen(t) ==
    \/ bot.op = "close" /\ bot.id = t /\ bot.seen.status = "open" /\ bot'.op = "idle"
    \/ api.op = "close" /\ api.id = t /\ api.seen.status = "open" /\ api'.op = "idle"

C2_Step ==
    \A t \in TaskIds :
        (CommitsLoadedOpen(t) /\ tasks[t].status = "closed")
            => /\ tasks'[t] = tasks[t]
               /\ Len(tasks') = Len(tasks)
               /\ nClose'[t] = nClose[t]

\* C2 as stated: of two close requests for the same open task that interleave, the
\* one that commits second finds the task closed: it writes no stamp and inserts
\* no successor, so the task carries one close stamp.
C2_SecondCloseChangesNothing == [][C2_Step]_vars

C3_Step ==
    \A t \in TaskIds :
        (tasks[t].status = "open" /\ tasks'[t].status = "closed")
            => Len(tasks') = Len(tasks) +
                  (IF tasks[t].recurrence # "none" /\ tasks[t].recurrence_active
                     THEN 1 ELSE 0)

\* C3 as stated: every step that closes an open task inserts exactly one successor
\* when the task is recurring with recurrence_active set, and none otherwise.
C3_CloseMakesOneSuccessor == [][C3_Step]_vars

C4_Step ==
    \A t \in TaskIds :
        tasks[t].status = "closed"
            => /\ tasks'[t].status = "closed"
               /\ tasks'[t].closed_at = tasks[t].closed_at
               /\ tasks'[t].closed_by = tasks[t].closed_by
               /\ nSucc'[t] = nSucc[t]

\* C4 as stated: no step changes status, closed_at or closed_by of a closed task
\* or inserts a successor of it.
C4_ClosedStaysAsItWas == [][C4_Step]_vars

C5_Step ==
    /\ \A t \in TaskIds :
          (tasks[t].status = "open" /\ tasks'[t].status = "closed")
              => tasks'[t].closed_by \in MayClose(t)
    /\ \A u \in Users, t \in TaskIds :
          (u \notin MayClose(t) /\
           (done_handler(u, t) \/ close_task_callback(u, t) \/ mytasks_close_task(u, t)
            \/ close_task_api(u, t) \/ \E c \in BOOLEAN : close_from_reply(u, t, c)))
              => (tasks' = tasks /\ bot'.op = "idle" /\ api' = api)
    /\ \A u \in Users, t \in TaskIds :
          (u \in MayClose(t) /\ tasks[t].status = "open" /\ done_handler(u, t))
              => (bot'.op = "close" /\ bot'.user = u /\ bot'.id = t)

C6_Step ==
    /\ \A t \in TaskIds :
          (\/ tasks'[t].text # tasks[t].text
           \/ tasks'[t].deadline # tasks[t].deadline
           \/ tasks'[t].assignee_id # tasks[t].assignee_id)
              => (bot.op = "edit" /\ bot.id = t /\ bot.user \in MayEdit(t))
    /\ (bot.op = "idle" /\ bot'.op = "edit")
          => (reply' = "task_edited" /\ bot'.user \in MayEdit(bot'.id))
    /\ (bot.op = "idle" /\ reply' = "cant_edit" /\ reply # "cant_edit")
          => (tasks' = tasks /\ bot'.op = "idle")

\* C6: a step that changes text, deadline or assignee of a task is the commit of an
\* edit requested by the task's author or a chat admin; an edit is taken up only
\* for one of them, and a refused request changes no task and leaves no edit in
\* flight.
C6_OnlyAuthorOrAdminEdits == [][C6_Step]_vars

\* The assignee, neither author nor admin, asked for an edit and was refused.
C6_Witness ==
    /\ Len(tasks) = 1
    /\ tasks[1].author_id = 1 /\ tasks[1].assignee_id = 2
    /\ 2 \notin MayEdit(1)
    /\ tasks[1].text = 1 /\ tasks[1].deadline = MaxTime
    /\ reply = "cant_edit"
    /\ bot.op = "idle"

\* C10: every task with a parent_task_id points at a task of the table that has no
\* parent_task_id itself.
C10_ParentIsRoot ==
    \A t \in TaskIds :
        tasks[t].parent_task_id # NULL
            => /\ tasks[t].parent_task_id \in TaskIds
               /\ tasks[tasks[t].parent_task_id].parent_task_id = NULL

\* The third task of a series, made by closing the second, points at the first.
C10_Witness ==
    /\ Len(tasks) = 3
    /\ tasks[1].parent_task_id = NULL
    /\ tasks[2].parent_task_id = 1 /\ tasks[2].status = "closed"
    /\ tasks[3].parent_task_id = 1
    /\ nSucc[2] = 1


\* ------------------------------------------------------------- C11
\* A task whose recurrence_active is false gets no successor and keeps the flag.
NoSuccessorOnceInactive(t) ==
    ~tasks[t].recurrence_active
        => (nSucc'[t] = nSucc[t] /\ ~tasks'[t].recurrence_active)

C11_Step ==
    /\ (bot.op = "delete_one" /\ bot'.op = "idle")
          => /\ tasks'[bot.id].status = "closed"
             /\ ~tasks'[bot.id].recurrence_active
             /\ Len(tasks') = Len(tasks)
    /\ \A t \in TaskIds : NoSuccessorOnceInactive(t)

\* C11: the commit of a single-instance delete leaves the task closed with
\* recurrence_active false, and from then on no step of any actor creates a
\* successor of that task or sets the flag again.
C11_DeletedInstanceHasNoSuccessor == [][C11_Step]_vars

\* A recurring task was deleted as a single instance while open, made no
\* successor, and a later close request on it was answered.
C11_Witness ==
    \E t \in TaskIds :
        /\ tasks[t].recurrence = "daily"
        /\ tasks[t].status = "closed"
        /\ ~tasks[t].recurrence_active
        /\ nSucc[t] = 0
        /\ nClose[t] = 0
        /\ reply = "task_already_closed"

\* ------------------------------------------------------------- C12
\* The tasks of the series of task t: the root and the rows whose parent it is.
Series(t) ==
    {i \in TaskIds : SeriesRoot(tasks[i], i) = SeriesRoot(tasks[t], t)}

C12_Step ==
    (bot.op = "delete_series" /\ bot'.op = "idle")
        => /\ \A i \in Series(bot.id) :
                /\ tasks'[i].status = "closed"
                /\ tasks[i].status = "open"
                      => /\ ~tasks'[i].recurrence_active
                         /\ tasks'[i].closed_by = bot.user
           /\ \A i \in TaskIds \ Series(bot.id) : tasks'[i] = tasks[i]
           /\ Len(tasks') = Len(tasks)

\* C12: when a whole-series delete commits, every task of the series of the task
\* it was asked for is closed, and each one that was open until then has
\* recurrence_active false and the caller as closed_by; tasks of other series
\* are not touched.
C12_SeriesDeleteClosesAll == [][C12_Step]_vars

\* The series was deleted from its closed root: the open successor was closed
\* by the delete (no close of it was ever committed) and lost its recurrence.
C12_Witness ==
    /\ reply = "series_deleted"
    /\ Len(tasks) >= 2
    /\ tasks[2].parent_task_id = 1
    /\ tasks[1].status = "closed"
    /\ tasks[1].recurrence_active
    /\ tasks[2].status = "closed"
    /\ ~tasks[2].recurrence_active
    /\ nClose[2] = 0


\* ------------------------------------------------------------- C13
\* The row a close of a daily task has to add: open, a day later, not warned
\* about, with the closed task's chat, people, text and recurrence, under the root.
SuccessorOf(task, id) ==
    [task EXCEPT !.deadline = task.deadline + Day,
                 !.status = "open",
                 !.reminder_sent = FALSE,
                 !.closed_at = NULL,
                 !.closed_by = NULL,
                 !.recurrence_active = TRUE,
                 !.parent_task_id = IF task.parent_task_id = NULL THEN id
                                    ELSE task.parent_task_id]

C13_Step ==
    (bot.op = "close" /\ bot'.op = "idle" /\ tasks[bot.id].recurrence = "daily")
        => /\ Len(tasks') = Len(tasks) + 1
           /\ tasks'[Len(tasks')] = SuccessorOf(tasks[bot.id], bot.id)
           /\ nSucc'[bot.id] = 1

Asks(u) == asked'[u][today] = asked[u][today] + 1

C14_Step ==
    /\ \A u \in Users :
          Asks(u) =>
              IF asked'[u][today] <= DAILY_LIMIT
                THEN bot'.op = "ask" /\ bot'.user = u /\ reply' = reply
                ELSE bot'.op = "idle" /\ reply' = "quota_exhausted"
    /\ (bot.op = "ask" /\ bot' # bot)
          => /\ bot'.op = "idle"
             /\ reply' \in {"answer", "llm_failed"}
             /\ llm_calls'[bot.user][bot.at] = llm_calls[bot.user][bot.at] + 1

C15_Step ==
    \A u \in Users :
        (/\ Asks(u)
         /\ \E i \in 1..Len(ask_usage) :
                /\ ask_usage[i].user_id = u
                /\ ask_usage[i].usage_date = today
                /\ ask_usage[i].count >= DAILY_LIMIT)
            => /\ reply' = "quota_exhausted"
               /\ bot'.op = "idle"
               /\ llm_calls' = llm_calls
               /\ ask_usage' = ask_usage

RowsFor(rows, u, d) ==
    {i \in 1..Len(rows) : rows[i].user_id = u /\ rows[i].usage_date = d}

UsageCount(rows, u, d) ==
    IF RowsFor(rows, u, d) = {} THEN 0
    ELSE rows[CHOOSE i \in RowsFor(rows, u, d) : TRUE].count

C16_Step ==
    /\ \A u \in Users, d \in Days :
          /\ Cardinality(RowsFor(ask_usage', u, d)) <= 1
          /\ RowsFor(ask_usage', u, d) # {} <=> asked'[u][d] > 0
          /\ UsageCount(ask_usage', u, d) =
                IF Asks(u) /\ d = today /\ bot'.op = "ask"
                  THEN UsageCount(ask_usage, u, d) + 1
                  ELSE UsageCount(ask_usage, u, d)
    /\ Len(ask_usage') =
          IF \E u \in Users : Asks(u) /\ asked[u][today] = 0
            THEN Len(ask_usage) + 1
            ELSE Len(ask_usage)

C17_Step ==
    \A u \in Users :
        Asks(u) =>
            IF asked'[u][today] <= 2
              THEN bot'.op = "ask" /\ bot'.user = u
              ELSE bot'.op = "idle" /\ reply' = "quota_exhausted"

\* C17: the first two questions of a user on a calendar day are accepted and
\* every further one of that day gets the quota message.
C17_QuotaIsTwo == [][C17_Step]_vars


\* ------------------------------------------------------------- C18
\* What the router did with the classified intent it held.
Dropped == pending' = pending /\ executed' = executed /\ reply' = reply

Stored ==
    /\ executed' = executed
    /\ reply' = "intent_confirm_asked"
    /\ \E q \in pending' :
          /\ q.hash = bot.id
          /\ q.intent_type = bot.seen.intent_type
          /\ q.extracted_data = bot.seen.extracted_data
          /\ q.user_id = bot.user

Executed ==
    /\ pending' = pending
    /\ Len(executed') = Len(executed) + 1
    /\ executed'[Len(executed')].intent_type = bot.seen.intent_type
    /\ executed'[Len(executed')].confidence = bot.seen.confidence
    /\ executed'[Len(executed')].extracted_data = bot.seen.extracted_data
    /\ executed'[Len(executed')].via = "execute_intent"

\* A bare task: no assignee, no deadline.
BareTask(r) ==
    r.intent_type = "task" /\ ~r.extracted_data.assignee /\ ~r.extracted_data.deadline

Simple(r) ==
    \/ r.intent_type = "question"
    \/ BareTask(r)
    \/ r.intent_type = "reminder" /\ r.extracted_data.reminder_time

C18_Step ==
    (bot.op = "route" /\ bot'.op = "idle")
        => /\ bot.seen.confidence < 65 => Dropped
           /\ (bot.seen.confidence >= 65
                 /\ (bot.seen.confidence < 85 \/ ~Simple(bot.seen))) => Stored
           /\ (bot.seen.confidence >= 85 /\ Simple(bot.seen)) => Executed

\* The four shapes of test_confidence_logic.
C18_TestShapes ==
    /\ ~needs_confirmation(IntentResult("task", 90, Data(FALSE, FALSE, FALSE)))
    /\ needs_confirmation(IntentResult("task", 90, Data(TRUE, FALSE, FALSE)))
    /\ needs_confirmation(IntentResult("task", 70, Data(FALSE, FALSE, FALSE)))
    /\ needs_confirmation(IntentResult("question", 80, Data(FALSE, FALSE, FALSE)))

\* C18: with a classified intent the router does one of three things: below
\* 0.65 it changes nothing and says nothing; from 0.65 on, when the confidence
\* is below 0.85 or the action is not simple, it stores the intent under the
\* hash and asks for confirmation, executing nothing; from 0.85 on with a simple
\* action it hands the intent to execute_intent and stores nothing.  Of the four
\* test shapes only the bare task at 0.90 needs no confirmation.
C18_RouterThreeWay == [][C18_Step /\ C18_TestShapes]_vars

\* A task with an assignee at 0.90 waits for its confirmation and a bare task
\* at 0.85 was executed at once.
C18_Witness ==
    /\ \E q \in pending : q.intent_type = "task" /\ q.extracted_data.assignee
    /\ reply = "intent_executed"
    /\ Len(executed) = 1
    /\ executed[1].confidence = 85
    /\ BareTask(executed[1])


\* ------------------------------------------------------------- C19
\* The intent stored under the hash of the button that was pressed.
StoredFor(h) == {q \in pending : q.hash = h}

C19_Step ==
    /\ (bot.op = "intent_callback" /\ bot'.op = "idle" /\ bot.seen = "dismiss")
          => /\ {q \in pending' : q.hash = bot.id} = {}
             /\ executed' = executed
             /\ reply' = "intent_dismissed"
             /\ \A q \in pending : q.hash # bot.id => q \in pending'
    /\ (bot.op = "intent_callback" /\ bot'.op = "idle" /\ bot.seen = "confirm"
           /\ StoredFor(bot.id) # {})
          => /\ Len(executed') = Len(executed) + 1
             /\ \E q \in StoredFor(bot.id) :
                   /\ executed'[Len(executed')].intent_type = q.intent_type
                   /\ executed'[Len(executed')].extracted_data = q.extracted_data
                   /\ executed'[Len(executed')].user_id = q.user_id
             /\ executed'[Len(executed')].confidence = 100
             /\ executed'[Len(executed')].via = "execute_intent_from_callback"
             /\ {q \in pending' : q.hash = bot.id} = {}
    /\ (bot.op = "intent_callback" /\ bot'.op = "idle" /\ bot.seen = "confirm"
           /\ StoredFor(bot.id) = {})
          => (executed' = executed /\ pending' = pending)

\* C19: "no" on a confirmation prompt removes the intent stored under its hash
\* and hands nothing to the executors; "yes" hands the intent stored under the
\* hash, with its type, data and user and with confidence 1.0, to
\* execute_intent_from_callback and removes it; "yes" on a prompt whose intent
\* is gone executes nothing.
C19_ConfirmOrDismiss == [][C19_Step]_vars

\* A question the router had stored at 0.80 for user 2 was confirmed by user 1
\* and handed on with confidence 1.0, and another stored intent was dismissed.
C19_Witness ==
    /\ Len(executed) = 1
    /\ executed[1].via = "execute_intent_from_callback"
    /\ executed[1].intent_type = "question"
    /\ executed[1].user_id = 2
    /\ executed[1].confidence = 100
    /\ reply = "intent_dismissed"
    /\ pending = {}


\* ------------------------------------------------------------- C20
\* The admins the chat has left: is_admin set and not gone.
RemainingAdmins == {u \in Users : u \in chat_admins /\ u \notin left_members}

C20_Step ==
    (/\ bot.op = "removeadmin" /\ bot'.op = "idle"
     /\ bot.id = bot.user
     /\ RemainingAdmins = {bot.user})
        => /\ chat_admins' = chat_admins
           /\ reply' = "cant_remove_self"

\* C20: /removeadmin from a caller who names themself and is the only admin the
\* chat has left is answered with the refusal, and no is_admin flag changes.
C20_LastAdminStays == [][C20_Step]_vars

\* User 1 was refused while user 2, an admin too, had left the chat.
C20_Witness ==
    /\ reply = "cant_remove_self"
    /\ chat_admins = {1, 2}
    /\ left_members = {2}
    /\ bot.op = "idle"


\* ------------------------------------------------------------- C21
C21_Step ==
    (/\ bot.op \in {"setadmin", "removeadmin"}
     /\ bot'.op = "idle"
     /\ ~(bot.user \in chat_admins /\ bot.user \notin left_members))
        => /\ member_rows' = member_rows
           /\ chat_admins' = chat_admins
           /\ left_members' = left_members
           /\ reply' \in {"setadmin_only_admins", "removeadmin_only_admins"}

C22_Step ==
    /\ \A u \in Users : member_rows'[u] <= 1
    /\ \A u \in Users : member_rows[u] >= 1 => member_rows'[u] = member_rows[u]
    /\ \A u \in left_members' \ left_members : member_rows[u] = 1
    /\ \A u \in left_members \ left_members' : member_rows'[u] = 1

\* C22: the chat never has more than one ChatMember row for a user: a row is
\* inserted only for a user who has none, leaving sets left_at on the row there
\* is, and coming back or writing clears left_at on that row and inserts nothing.
C22_OneMembershipPerUser == [][C22_Step]_vars

\* User 2 got a membership, was made admin, left and came back: one row still,
\* with the flag, and left_at cleared; user 1 has left.
C22_Witness ==
    /\ member_rows = [u \in Users |-> 1]
    /\ chat_admins = {1, 2}
    /\ left_members = {1}
    /\ reply = "admin_set"

\* ------------------------------------------------------------- C23
\* C23: once a user's /cancel has been dispatched, whether or not a dialogue was
\* active, that user has no dialogue state and no waiting flag left: the
\* conversations are ended and user_data holds neither in_conversation nor a
\* reminder waiting for its time nor a suggested task waiting for its assignee or
\* deadline.
C23_CancelClearsEverything ==
    handled.msg.command = "cancel" =>
        /\ user_data[handled.user] = NoUserData
        /\ conversations[handled.user] = NoConversation

\* ------------------------------------------------------------- C24
C24_Step ==
    \A u \in Talkers : \A c \in {"task", "cost"} :
        (/\ conversations[u][c] # "END"
         /\ handled' # handled
         /\ handled'.user = u
         /\ handled'.msg.command \in Commands \ {"cancel"}
         /\ ~handled'.msg.private)
            => conversations'[u][c] = "END"

\* C24: a slash-command other than /cancel that a user sends in the group while
\* one of their dialogues is open ends that dialogue.
C24_OtherCommandLeavesDialogue == [][C24_Step]_vars

\* ------------------------------------------------------------- C25
\* C25: a plain text that mentions the bot is taken by the reminder handler when
\* "напомни" follows the mention and by the mention handler otherwise.
C25_OneMentionHandler ==
    (handled.msg.command = "none" /\ MentionsBot(handled.msg.text)) =>
        handled.by = IF MentionThenNapomni(handled.msg.text)
                       THEN "remind_handler"
                       ELSE "mention_handler"

\* ------------------------------------------------------------- C26
C26_Step ==
    \A u \in Talkers :
        LET h == user_data[u].reminder_waiting_time IN
        (/\ h # 0
         /\ h \in pending_reminders
         /\ conversations[u] = NoConversation
         /\ Len(reminders) < MaxDialogReminders
         /\ handled' # handled
         /\ handled'.user = u
         /\ handled'.msg.command = "none"
         /\ ~MentionsBot(handled'.msg.text)
         /\ handled'.msg.at # NoTime)
            => /\ Len(reminders') = Len(reminders) + 1
               /\ reminders'[Len(reminders')].remind_at = handled'.msg.at
               /\ pending_reminders' = pending_reminders \ {h}
               /\ user_data'[u].reminder_waiting_time = 0

\* C26: while a user's stashed reminder waits for its time and no dialogue of theirs
\* is open, the next plain text of that user that parses as a time, in the group
\* or in a private chat, creates the reminder with that time, removes the stash
\* and drops the waiting flag.
C26_TypedTimeCompletesReminder == [][C26_Step]_vars

\* ------------------------------------------------------------- C27
\* C27: no step changes remind_at of a reminder that is sent or cancelled (the
\* text of a reminder is written by no edit path at all).
C27_SentOrCancelledKeepsTime ==
    [][\A r \in ReminderIds :
         reminders[r].status \in {"sent", "cancelled"}
            => reminders'[r].remind_at = reminders[r].remind_at]_vars

\* ------------------------------------------------------------- C30
\* The reminders the sweep's query is to find.
DuePending == {r \in ReminderIds : reminders[r].status = "pending"
                                     /\ reminders[r].remind_at <= now}

SweepTakesDuePending ==
    (sched.pc = "idle" /\ sched'.pc = "loop") => Range(sched'.queue) = DuePending

C30_Step ==
    /\ SweepTakesDuePending
    /\ \A r \in ReminderIds :
          delivered'[r] > delivered[r] => reminders[r].remind_at <= now

\* C30: a sweep hands to delivery exactly the reminders that are pending with
\* remind_at <= now, and no reminder message goes out before the reminder's
\* remind_at.
C30_SweepDeliversDueOnly == [][C30_Step]_vars

\* ------------------------------------------------------------- C28
\* C28: the rules engine classifies every phrase of the test's table to the type
\* the table expects: the task phrases to task, the reminder phrases to reminder,
\* the question phrases to question and the three conversational phrases to no
\* match.
C28_TableAsExpected ==
    \A i \in 1..Len(test_cases) :
        (handled.by = "RulesEngine.classify" /\ handled.msg.text = test_cases[i].text)
            => reply = test_cases[i].expected

\* ------------------------------------------------------------- C29
\* C29: at any clock reading, parse_deadline of "zavtra" (tomorrow) gives 00:01 of
\* the day after the current one, and the result is later than the reading.
C29_TomorrowIsNextDay ==
    (handled.by = "parse_deadline" /\ handled.msg.text = zavtra) =>
        /\ handled.msg.at = At(DayOf(now) + 1, Slot0001)
        /\ handled.msg.at > now

\* ------------------------------------------------------------- C31
InWindow(i) ==
    /\ tasks[i].status = "open"
    /\ tasks[i].deadline # NULL
    /\ tasks[i].deadline <= now + task_reminder_hours_before
    /\ tasks[i].deadline > now

C31_Step ==
    \A i \in TaskIds :
        /\ warned'[i] <= 1
        /\ (tasks'[i].reminder_sent /\ ~tasks[i].reminder_sent) => warned'[i] = warned[i] + 1
        /\ tasks[i].reminder_sent => (warned'[i] = warned[i] /\ tasks'[i].reminder_sent)
        /\ (~tasks[i].reminder_sent /\ warned'[i] = warned[i]) => ~tasks'[i].reminder_sent

\* C31: a task gets at most one accepted deadline warning: reminder_sent becomes
\* true only in a step that delivered the warning, a task with reminder_sent true
\* is not warned again and keeps the flag, and a step that delivered nothing for a
\* task leaves its flag false, so that the sweep's query selects it again while it
\* is open and inside the window.
C31_WarnedAtMostOnce == [][C31_Step]_vars

\* A task warned once and flagged that is still open and inside the window, where
\* the sweep's query without the flag would select it again.
C31_Witness ==
    \E i \in TaskIds : warned[i] = 1 /\ tasks[i].reminder_sent /\ InWindow(i)

\* ------------------------------------------------------------- C32
\* C32 as stated: whatever its length, a routed text that matches a rule pattern is
\* classified by the rules engine.
C32_RulesWhateverLength ==
    (handled.by # "none" /\ RulesEngine_classify(handled.msg.text) # "none") =>
        handled.by = "rules"

\* C32, amended: a routed text shorter than 10 characters gets no classification
\* from either tier, also when it matches a rule pattern; a text of 10 characters
\* or more that matches a rule pattern is classified by the rules engine, and the
\* LLM tier is asked only for texts of 10 characters or more that match no rule.
C32_LengthBeforeRules ==
    handled.by # "none" =>
        /\ TextLength(handled.msg.text) < 10 => handled.by = "too_short"
        /\ (TextLength(handled.msg.text) >= 10
              /\ RulesEngine_classify(handled.msg.text) # "none") => handled.by = "rules"
        /\ handled.by \in {"llm", "no_intent"} =>
              (TextLength(handled.msg.text) >= 10
                 /\ RulesEngine_classify(handled.msg.text) = "none")

\* A text of nine characters ending in a question mark (the rules' question) that
\* was routed and got no classification.
C32_Witness ==
    /\ handled.by = "too_short"
    /\ handled.msg.text = <<"kak", "dela", "?">>
    /\ RulesEngine_classify(handled.msg.text) = "question"
    /\ bot.op = "idle"

C33_Step ==
    \A c \in Chats :
        task_detector'[c].messages = task_detector[c].messages + 1 =>
            /\ task_detector'[c].counter \in 0..19
            /\ task_detector'[c].counter = task_detector'[c].long % 20
            /\ IF task_detector'[c].long = task_detector[c].long
                 THEN reply' = "none" /\ task_detector'[c].counter = task_detector[c].counter
               ELSE reply' = "task_analysis" <=> task_detector'[c].long % 20 = 0

C34_Step ==
    \A r \in ReminderIds :
        reminders'[r].status # reminders[r].status =>
            /\ reminders[r].status = "pending"
            /\ reminders'[r].status \in {"sent", "cancelled"}

\* C34: a reminder's status only moves pending -> sent or pending -> cancelled and
\* both are terminal; under any interleaving of a cancel request with a delivery of
\* the same reminder, a reminder that is cancelled has not been delivered.
C34_SentAndCancelledTerminal ==
    [][/\ C34_Step
       /\ \A r \in ReminderIds :
             reminders'[r].status = "cancelled" => delivered'[r] = 0]_vars

\* The steps by which the executors are run from a confirmation prompt.
ConfirmedRun ==
    /\ bot.op = "intent_callback"
    /\ Len(executed') = Len(executed) + 1

C35_Step ==
    /\ ConfirmedRun =>
          /\ bot.seen = "confirm"
          /\ {q \in pending : q.hash = bot.id} # {}
          /\ {q \in pending' : q.hash = bot.id} = {}
    /\ (\E q \in pending' : q \notin pending) => bot.op = "route"
    /\ Len(executed') > Len(executed) =>
          \/ ConfirmedRun
          \/ bot.op = "route" /\ pending' = pending

ChatHasAdmin == \E u \in Users : is_admin(u)

C36_Step ==
    (/\ bot.op \in {"setadmin", "removeadmin"}
     /\ bot'.op = "idle"
     /\ ChatHasAdmin)
        => \E u \in Users : u \in chat_admins' /\ u \notin left_members'

\* C36: no /setadmin and no /removeadmin takes the last admin from a chat: when
\* is_admin holds for some user before the command is handled, it holds for some
\* user afterwards. The commands are handled one after the other, so of two
\* admins who each remove themself the second is refused.
C36_AdminRemains == [][C36_Step]_vars

\* User 1 made user 2 an admin and removed themself; user 2, now the only admin,
\* asked to be removed too and was refused.
C36_Witness ==
    /\ chat_admins = {2}
    /\ left_members = {}
    /\ reply = "cant_remove_self"
    /\ bot.op = "idle"

C38_Step ==
    (/\ handled.by = "rules"
     /\ bot.op = "route"
     /\ bot'.op = "idle")
        => /\ bot.seen.confidence \in {75, 80}
           /\ executed' = executed
           /\ reply' = "intent_confirm_asked"
           /\ \E q \in pending' : q.hash = bot.id /\ q.intent_type = bot.seen.intent_type

\* C38: an intent that comes from the rules engine alone (confidence 0.75 or
\* 0.80) is never executed by the router itself: the router stores it and asks for
\* confirmation, and whatever is executed of it was handed on by a "yes" press.
C38_RulesAlwaysConfirmed ==
    [][/\ C38_Step
       /\ handled'.by = "rules" =>
             \A i \in 1..Len(executed') :
                 executed'[i].via = "execute_intent_from_callback"]_vars

\* A question the rules engine found was stored, confirmed by a press and handed
\* to the executors.
C38_Witness ==
    /\ handled.by = "rules"
    /\ Len(executed) = 1
    /\ executed[1].via = "execute_intent_from_callback"
    /\ executed[1].intent_type = "question"
    /\ pending = {}

\* C39: whenever /setadmin completes with the success report, is_admin holds for
\* the target afterwards, also when the target's membership row has left_at set.
C39_SetadminMakesAdmin ==
    [][(/\ bot.op = "setadmin"
        /\ bot'.op = "idle"
        /\ reply' = "admin_set")
          => /\ bot.id \in chat_admins'
             /\ bot.id \notin left_members']_vars

\* C40: in every state a reminder has sent_at set if and only if its status is
\* sent, and has cancelled_at and cancelled_by set if and only if its status is
\* cancelled.
C40_StampsMatchStatus ==
    \A r \in ReminderIds :
        /\ reminders[r].sent_at # NULL <=> reminders[r].status = "sent"
        /\ reminders[r].cancelled_at # NULL <=> reminders[r].status = "cancelled"
        /\ reminders[r].cancelled_by # NULL <=> reminders[r].status = "cancelled"

====
